---- MODULE Spec2Model ----
(***************************************************************************)
(* Model of the adaptive market-data push scheduler (MarketDataPusher) and *)
(* the market data cache (MarketService) of jcp.                           *)
(*                                                                         *)
(* Every goroutine is a process with a program position: the control loop *)
(* (pushLoop), the workers spawned by runParallel and by the candle        *)
(* subscription listener, the callers of Start and Stop.  A critical       *)
(* section of a mutex is one atomic step; an upstream HTTP fetch is a step *)
(* of its own whose result is chosen by the environment.  Time is a clock  *)
(* in whole seconds advanced by the environment; timer and ticker expiry   *)
(* are environment events.                                                 *)
(***************************************************************************)
EXTENDS Integers, Sequences, FiniteSets, TLC

VARIABLES
    now,                  \* wall clock, seconds
    \* ---- MarketDataPusher fields
    subscribedCodes,      \* watchlist, a sequence of symbols
    currentOrderBook,     \* focus symbol, "" when none
    klineSub,             \* [Code, Period]
    lastKLineTime,        \* timestamp of the newest bucket already pushed
    lastTelegraphContent, \* content of the last news item pushed
    lastOrderBookHash,    \* fingerprint of the last order book pushed
    lastMarketStatus,     \* cached session phase, "" when none
    lastMarketStatusTime, \* when the cached phase was stored
    stopped,              \* Stop has run
    stopChan,             \* "open" or "closed"
    \* ---- goroutines
    startPc,              \* position of the caller of Start
    loopPc,               \* position of pushLoop
    tickers,              \* the four tickers of pushLoop: state and pending tick
    normalCount,          \* pushLoop's local counter of normal ticks
    workers,              \* every worker goroutine spawned so far
    crashed,              \* an unrecovered panic ended the process
    \* ---- MarketService fields
    cache,                \* stock/order-book cache: key -> entry
    klineCache,           \* candle cache: key -> entry
    \* ---- external collaborators
    listeners,            \* event names with a registered listener (host event system)
    inbox,                \* inbound subscription request being delivered, or NoReq
    sink,                 \* Event Sink: per channel, the payloads published, in order
    marketPhase,          \* what GetMarketStatus answers at this moment
    upstream,             \* Quote Source Adapter: per request, the number of fetches served
    klineRecorded,        \* history: a minute task has recorded a bucket for the current subscription
    limit,                \* bounds of this run: workers spawned, normal ticks, seconds, Stop calls
    stopCalls,            \* history: calls of Stop that have returned
    mu,                   \* p.mu: "free", or the writer holding it across several steps
    updateCodes,          \* updateSubscriptions: the elements of its argument not yet visited
    opLog,                \* history: the calls of AddSubscription and RemoveSubscription, in order
    \* ---- trading calendar
    clock,                \* the wall clock in UTC+8: [day, minute]
    holidayCacheData,     \* year -> (date -> isOffDay), the tables in memory
    holidayFiles,         \* year -> document, the readable holiday cache files
    tradeDatesFile,       \* trade_dates.json: NoFile or [TradeDates, UpdatedAt]
    answer,               \* what the last call into the calendar or of a pure function returned
    args                  \* the arguments of the pure function being applied, NoArgs when none

vars == <<now, subscribedCodes, currentOrderBook, klineSub, lastKLineTime,
          lastTelegraphContent, lastOrderBookHash, lastMarketStatus,
          lastMarketStatusTime, stopped, stopChan, startPc, loopPc, tickers,
          normalCount, workers, crashed, cache, klineCache, listeners, inbox,
          sink, marketPhase, upstream, klineRecorded, limit, stopCalls, mu, updateCodes,
          opLog, clock, holidayCacheData, holidayFiles, tradeDatesFile, answer, args>>

pusherVars == <<subscribedCodes, currentOrderBook, klineSub, lastKLineTime,
                lastTelegraphContent, lastOrderBookHash, lastMarketStatus,
                lastMarketStatusTime>>
ctrlVars == <<stopped, stopChan, startPc, loopPc, tickers, normalCount>>
cacheVars == <<cache, klineCache>>
calendarVars == <<clock, holidayCacheData, holidayFiles, tradeDatesFile, answer>>
extVars == <<stopCalls, mu, updateCodes, opLog, calendarVars, args>>

-----------------------------------------------------------------------------
(* Bounds of the model *)

MaxTime == 3
MaxSpawn == 2
MaxTicks == 2
MaxCalls == 3
MaxDay == 7
MaxDays == 2

Limit(spawn, ticks, time) ==
    [spawn |-> spawn, ticks |-> ticks, time |-> time, calls |-> 1]

(* Program constants *)

cacheTTL == 2
klineCacheTTL == 2
phaseCacheTTL == 10
sweepAge == 10
ZeroTime == -1000

-----------------------------------------------------------------------------
(* Values *)

Codes == {"sh600000", "sz000001"}
Periods == {"1m", "1d"}
Phases == {"pre_market", "trading", "lunch_break", "closed"}
Tiers == {"fast", "normal", "slow", "klineDay"}

EventMarketSubscribe == "market:subscribe"
EventOrderBookSubscribe == "market:orderbook:subscribe"
EventKLineSubscribe == "market:kline:subscribe"
EventStockUpdate == "market:stock:update"
EventOrderBookUpdate == "market:orderbook:update"
EventTelegraphUpdate == "market:telegraph:update"
EventMarketStatusUpdate == "market:status:update"
EventMarketIndicesUpdate == "market:indices:update"
EventKLineUpdate == "market:kline:update"

Channels == {EventStockUpdate, EventOrderBookUpdate, EventTelegraphUpdate,
             EventMarketStatusUpdate, EventMarketIndicesUpdate, EventKLineUpdate}
SubscribeEvents == {EventMarketSubscribe, EventOrderBookSubscribe, EventKLineSubscribe}

\* No pure function is being applied.
NoArgs == [call |-> "none"]

NoReq == [name |-> "none", data |-> <<>>]

-----------------------------------------------------------------------------
(* Order books and the change detector *)

\* models.OrderBookItem: Price in thousandths of a yuan, Size in lots.
Level(price, size) == [Price |-> price, Size |-> size]
OrderBook(bids, asks) == [Bids |-> bids, Asks |-> asks]
EmptyOrderBook == OrderBook(<<>>, <<>>)

\* fmt's %.2f of a price held in thousandths: the price in hundredths, rounded.
Format2f(price) == (price + 5) \div 10

\* orderBookHash: "%.2f:%.0f:%.2f:%.0f" of best bid and best ask, as the tuple
\* of the four printed fields.  The empty string (no hash yet) is <<>>.
orderBookHash(ob) ==
    LET b1Price == IF Len(ob.Bids) > 0 THEN ob.Bids[1].Price ELSE 0
        b1Size  == IF Len(ob.Bids) > 0 THEN ob.Bids[1].Size ELSE 0
        a1Price == IF Len(ob.Asks) > 0 THEN ob.Asks[1].Price ELSE 0
        a1Size  == IF Len(ob.Asks) > 0 THEN ob.Asks[1].Size ELSE 0
    IN  <<Format2f(b1Price), b1Size, Format2f(a1Price), a1Size>>

NoHash == <<>>

\* Order books the upstream may report for a symbol.
BookA  == OrderBook(<<Level(10000, 5)>>, <<Level(10010, 3)>>)
BookA2 == OrderBook(<<Level(10000, 5), Level(9990, 7)>>, <<Level(10010, 3)>>)
BookB  == OrderBook(<<Level(10020, 5)>>, <<Level(10030, 3)>>)
Books == {BookA, BookA2, BookB}

\* StockWithOrderBook
StockRecord(code, ob) == [Symbol |-> code, OrderBook |-> ob]

\* A call's result: (value, error).
Ok(data) == [err |-> FALSE, data |-> data]
Err == [err |-> TRUE, data |-> <<>>]

\* What fetchStockDataWithOrderBook may return for one symbol: a transport
\* error, no usable record, or one parsed record.
StockFetchResults(code) ==
    {Err, Ok(<<>>)} \cup {Ok(<<StockRecord(code, b)>>) : b \in Books}

-----------------------------------------------------------------------------
(* Candles *)

\* models.KLineData, of which the scheduler reads only Time.
Candle(t) == [Time |-> t]

T0931 == "2024-01-02 09:31:00"
T0932 == "2024-01-02 09:32:00"
TEpoch == "1970-01-01 00:00:00"
TDay == "2024-01-02"

\* time.Parse("2006-01-02 15:04:05", t).Unix() for the labels of the model;
\* any other label fails to parse.
UnixOf == (T0931 :> 1704187860) @@ (T0932 :> 1704187920) @@ (TEpoch :> 0)

\* parseKLineTime
parseKLineTime(t) == IF t \in DOMAIN UnixOf THEN UnixOf[t] ELSE 0

\* Series fetchKLineData may return.
MinuteSeries == {<<>>, <<Candle(T0931)>>, <<Candle(T0931), Candle(T0932)>>,
                 <<Candle(TDay)>>}
DaySeries == {<<>>, <<Candle(TDay)>>}
KLineFetchResults(period) ==
    {Err} \cup {Ok(s) : s \in IF period = "1m" THEN MinuteSeries ELSE DaySeries}

klineFullCount == 240
klineMinuteCount == 5
klineDayCount == 120
tradeDatesWindow == 90

-----------------------------------------------------------------------------
(* Market data cache *)

\* strings.Join(sort(codes), ","): the key of a request for one symbol is the
\* symbol itself.
StockCacheKey(code) == code

\* fmt.Sprintf("%s:%s:%d", code, period, days)
KLineCacheKey(code, period, days) == <<code, period, days>>

CacheEntry(data, timestamp) == [data |-> data, timestamp |-> timestamp]

\* time.Since(t)
Since(t) == now - t

\* A validity test that still accepts an entry of exactly the TTL's age.
CacheValidInclusive(c, key, ttl) == key \in DOMAIN c /\ Since(c[key].timestamp) <= ttl

\* The validity test of both caches: present and younger than the TTL.
CacheValid(c, key, ttl) == key \in DOMAIN c /\ Since(c[key].timestamp) < ttl

\* m[key] = entry on a Go map
MapPut(m, key, entry) == [k \in DOMAIN m \cup {key} |-> IF k = key THEN entry ELSE m[k]]


-----------------------------------------------------------------------------
(* Quote Source Adapter and Event Sink (external collaborators) *)

\* The number of fetches of `req` the adapter has served.
UpstreamCount(u, req) == IF req \in DOMAIN u THEN u[req] ELSE 0

\* The adapter serves one more fetch of `req`.
UpstreamServe(req) == upstream' = MapPut(upstream, req, UpstreamCount(upstream, req) + 1)

\* runtime.EventsEmit(ctx, channel, payload)
EventsEmit(channel, payload) ==
    sink' = [sink EXCEPT ![channel] = Append(@, payload)]

\* Payloads
Stock(code) == [Symbol |-> code]
StocksOf(codes) == [i \in 1..Len(codes) |-> Stock(codes[i])]
MarketStatus(status) == [Status |-> status]
KLineUpdate(code, period, data, incremental) ==
    [code |-> code, period |-> period, data |-> data, incremental |-> incremental]
Telegraphs == {"news1", "news2"}
IndexList == <<"s_sh000001", "s_sz399001", "s_sz399006">>

-----------------------------------------------------------------------------
(* Worker goroutines *)

Tasks == {"pushStockData", "pushOrderBookData", "pushTelegraphData",
          "pushMarketStatus", "pushMarketIndices", "pushKLineData",
          "pushKLineMinute", "pushKLineDay"}

\* A goroutine running safeCall(fn).  joined: the control loop is waiting for
\* it in runParallel; late: its dispatch timed out while it was running.
NewWorker(task, joined) ==
    [task |-> task, pc |-> "start", joined |-> joined, late |-> FALSE,
     outcome |-> "running",
     codes |-> <<>>, code |-> "", period |-> "", lastHash |-> NoHash,
     lastTime |-> 0, hadRecord |-> FALSE, data |-> <<>>]

\* The goroutine has returned: its locals are gone.
Finished(w, outcome) ==
    [NewWorker(w.task, w.joined) EXCEPT !.pc = "done", !.late = w.late,
                                        !.outcome = outcome]

WorkerIds == 1..Len(workers)
Running(i) == workers[i].pc # "done"
At(i, task, pc) ==
    /\ ~crashed
    /\ i \in WorkerIds /\ workers[i].task = task /\ workers[i].pc = pc

SetWorker(i, w) == workers' = [workers EXCEPT ![i] = w]
Goto(i, pc) == SetWorker(i, [workers[i] EXCEPT !.pc = pc])
Return(i, outcome) == SetWorker(i, Finished(workers[i], outcome))

\* go func() for each task, in order
Spawn(tasks, joined) ==
    /\ Len(workers) + Len(tasks) <= limit.spawn
    /\ workers' = workers \o [i \in 1..Len(tasks) |-> NewWorker(tasks[i], joined)]

\* safeCall when fn panics: the deferred recover logs the panic and the
\* goroutine returns normally (runParallel's deferred wg.Done runs).
safeCallNoRecover(i) ==
    /\ crashed' = TRUE
    /\ UNCHANGED workers

safeCall(i) ==
    /\ Return(i, "panicked")
    /\ UNCHANGED crashed

\* fn panics at its current position.
TaskPanics(i) ==
    /\ ~crashed
    /\ i \in WorkerIds /\ Running(i)
    /\ safeCall(i)
    /\ UNCHANGED <<now, pusherVars, ctrlVars, cacheVars, listeners, inbox, sink,
                   marketPhase, upstream, klineRecorded, limit, extVars>>


\* What a worker step leaves alone besides the fields it names.
WorkerFrame == <<now, ctrlVars, crashed, listeners, inbox, marketPhase, limit, extVars>>
RegistryRest == <<subscribedCodes, currentOrderBook, klineSub, lastTelegraphContent,
                  lastMarketStatus, lastMarketStatusTime>>

-----------------------------------------------------------------------------
(* pushOrderBookData, with GetRealOrderBook and GetStockDataWithOrderBook *)

\* p.mu.RLock: code := p.currentOrderBook; lastHash := p.lastOrderBookHash
pushOrderBookData_Read(i) ==
    /\ At(i, "pushOrderBookData", "start")
    /\ mu = "free"
    /\ IF currentOrderBook = ""
         THEN Return(i, "skipped")
         ELSE SetWorker(i, [workers[i] EXCEPT !.pc = "lookup",
                                             !.code = currentOrderBook,
                                             !.lastHash = lastOrderBookHash])
    /\ UNCHANGED <<WorkerFrame, pusherVars, cacheVars, sink, upstream, klineRecorded>>

\* GetRealOrderBook after a successful GetStockDataWithOrderBook: no record
\* gives the zero OrderBook and a nil error.
GetRealOrderBook(data) == IF Len(data) = 0 THEN EmptyOrderBook ELSE data[1].OrderBook

\* The rest of pushOrderBookData up to the write lock: hash and compare.
pushOrderBookData_Compare(i, data) ==
    LET orderBook == GetRealOrderBook(data)
    IN  IF orderBookHash(orderBook) = workers[i].lastHash
          THEN Return(i, "skipped")
          ELSE SetWorker(i, [workers[i] EXCEPT !.pc = "setHash", !.data = <<orderBook>>])

\* ms.cacheMu.RLock: the cache check.
GetStockDataWithOrderBook_Lookup(i) ==
    /\ At(i, "pushOrderBookData", "lookup")
    /\ LET cacheKey == StockCacheKey(workers[i].code)
       IN  IF CacheValid(cache, cacheKey, cacheTTL)
             THEN pushOrderBookData_Compare(i, cache[cacheKey].data)
             ELSE Goto(i, "fetch")
    /\ UNCHANGED <<WorkerFrame, pusherVars, cacheVars, sink, upstream, klineRecorded>>

\* A fetch whose error is stored in the cache as an empty answer.
GetStockDataWithOrderBook_FetchCachesError(i) ==
    /\ At(i, "pushOrderBookData", "fetch")
    /\ UpstreamServe(<<"book", workers[i].code>>)
    /\ \E r \in StockFetchResults(workers[i].code) :
          IF r.err
            THEN /\ Return(i, "failed")
                 /\ cache' = MapPut(cache, StockCacheKey(workers[i].code),
                                    CacheEntry(<<>>, now))
            ELSE /\ SetWorker(i, [workers[i] EXCEPT !.pc = "store", !.data = r.data])
                 /\ UNCHANGED cache
    /\ UNCHANGED <<WorkerFrame, pusherVars, klineCache, sink, klineRecorded>>

\* fetchStockDataWithOrderBook; an error returns through GetRealOrderBook
\* and ends the task.
GetStockDataWithOrderBook_Fetch(i) ==
    /\ At(i, "pushOrderBookData", "fetch")
    /\ UpstreamServe(<<"book", workers[i].code>>)
    /\ \E r \in StockFetchResults(workers[i].code) :
          IF r.err THEN Return(i, "failed")
                   ELSE SetWorker(i, [workers[i] EXCEPT !.pc = "store", !.data = r.data])
    /\ UNCHANGED <<WorkerFrame, pusherVars, cacheVars, sink, klineRecorded>>

\* A store that leaves an entry another lookup has stored meanwhile.
GetStockDataWithOrderBook_StoreKeepsFirst(i) ==
    /\ At(i, "pushOrderBookData", "store")
    /\ cache' = IF CacheValid(cache, StockCacheKey(workers[i].code), cacheTTL)
                  THEN cache
                  ELSE MapPut(cache, StockCacheKey(workers[i].code),
                              CacheEntry(workers[i].data, now))
    /\ pushOrderBookData_Compare(i, workers[i].data)
    /\ UNCHANGED <<WorkerFrame, pusherVars, klineCache, sink, upstream, klineRecorded>>

\* ms.cacheMu.Lock: ms.cache[cacheKey] = &stockCache{data, time.Now()}
GetStockDataWithOrderBook_Store(i) ==
    /\ At(i, "pushOrderBookData", "store")
    /\ cache' = MapPut(cache, StockCacheKey(workers[i].code),
                       CacheEntry(workers[i].data, now))
    /\ pushOrderBookData_Compare(i, workers[i].data)
    /\ UNCHANGED <<WorkerFrame, pusherVars, klineCache, sink, upstream, klineRecorded>>

\* p.mu.Lock: p.lastOrderBookHash = hash
pushOrderBookData_SetHash(i) ==
    /\ At(i, "pushOrderBookData", "setHash")
    /\ lastOrderBookHash' = orderBookHash(workers[i].data[1])
    /\ Goto(i, "emit")
    /\ UNCHANGED <<WorkerFrame, RegistryRest, lastKLineTime, cacheVars, sink, upstream,
                   klineRecorded>>

\* runtime.EventsEmit(p.ctx, EventOrderBookUpdate, orderBook)
pushOrderBookData_Emit(i) ==
    /\ At(i, "pushOrderBookData", "emit")
    /\ EventsEmit(EventOrderBookUpdate, workers[i].data[1])
    /\ Return(i, "emitted")
    /\ UNCHANGED <<WorkerFrame, pusherVars, cacheVars, upstream, klineRecorded>>

pushOrderBookData(i) ==
    \/ pushOrderBookData_Read(i)
    \/ GetStockDataWithOrderBook_Lookup(i)
    \/ GetStockDataWithOrderBook_Fetch(i)
    \/ GetStockDataWithOrderBook_Store(i)
    \/ pushOrderBookData_SetHash(i)
    \/ pushOrderBookData_Emit(i)


-----------------------------------------------------------------------------
(* pushKLineData, pushKLineMinute, pushKLineDay, with GetKLineData *)

KLineTasks == {"pushKLineData", "pushKLineMinute", "pushKLineDay"}

\* The count each task asks GetKLineData for.
KLineCount(task) ==
    CASE task = "pushKLineData" -> klineFullCount
      [] task = "pushKLineMinute" -> klineMinuteCount
      [] OTHER -> klineDayCount

\* p.klineSubMu.RLock: sub := p.klineSub
pushKLineData_Read(i) ==
    /\ At(i, "pushKLineData", "start")
    /\ IF klineSub.Code = ""
         THEN Return(i, "skipped")
         ELSE SetWorker(i, [workers[i] EXCEPT !.pc = "lookup", !.code = klineSub.Code,
                                             !.period = klineSub.Period])
    /\ UNCHANGED <<WorkerFrame, pusherVars, cacheVars, sink, upstream, klineRecorded>>

\* p.klineSubMu.RLock: sub := p.klineSub; lastTime := p.lastKLineTime
\* GetKLineData is called with the literal period "1m".
pushKLineMinute_Read(i) ==
    /\ At(i, "pushKLineMinute", "start")
    /\ IF klineSub.Code = "" \/ klineSub.Period # "1m"
         THEN Return(i, "skipped")
         ELSE SetWorker(i, [workers[i] EXCEPT !.pc = "lookup", !.code = klineSub.Code,
                                             !.period = "1m",
                                             !.lastTime = lastKLineTime,
                                             !.hadRecord = klineRecorded])
    /\ UNCHANGED <<WorkerFrame, pusherVars, cacheVars, sink, upstream, klineRecorded>>

\* p.klineSubMu.RLock: sub := p.klineSub
pushKLineDay_Read(i) ==
    /\ At(i, "pushKLineDay", "start")
    /\ IF klineSub.Code = "" \/ klineSub.Period = "1m"
         THEN Return(i, "skipped")
         ELSE SetWorker(i, [workers[i] EXCEPT !.pc = "lookup", !.code = klineSub.Code,
                                             !.period = klineSub.Period])
    /\ UNCHANGED <<WorkerFrame, pusherVars, cacheVars, sink, upstream, klineRecorded>>

\* After a successful GetKLineData: pushKLineMinute returns on an empty
\* series; the other two publish whatever came.
KLineGot(i, klines) ==
    IF workers[i].task = "pushKLineMinute"
      THEN IF Len(klines) = 0
             THEN Return(i, "skipped")
             ELSE SetWorker(i, [workers[i] EXCEPT !.pc = "setTime", !.data = klines])
      ELSE SetWorker(i, [workers[i] EXCEPT !.pc = "emit", !.data = klines])

KLineKeyOf(w) == KLineCacheKey(w.code, w.period, KLineCount(w.task))

\* ms.klineCacheMu.RLock: the cache check.
GetKLineData_Lookup(i) ==
    /\ \E t \in KLineTasks : At(i, t, "lookup")
    /\ IF CacheValid(klineCache, KLineKeyOf(workers[i]), klineCacheTTL)
         THEN KLineGot(i, klineCache[KLineKeyOf(workers[i])].data)
         ELSE Goto(i, "fetch")
    /\ UNCHANGED <<WorkerFrame, pusherVars, cacheVars, sink, upstream, klineRecorded>>

\* fetchKLineData; an error ends the task.
GetKLineData_Fetch(i) ==
    /\ \E t \in KLineTasks : At(i, t, "fetch")
    /\ UpstreamServe(<<"kline", KLineKeyOf(workers[i])>>)
    /\ \E r \in KLineFetchResults(workers[i].period) :
          IF r.err THEN Return(i, "failed")
                   ELSE SetWorker(i, [workers[i] EXCEPT !.pc = "store", !.data = r.data])
    /\ UNCHANGED <<WorkerFrame, pusherVars, cacheVars, sink, klineRecorded>>

\* ms.klineCacheMu.Lock: ms.klineCache[cacheKey] = &klineCache{klines, time.Now()}
GetKLineData_Store(i) ==
    /\ \E t \in KLineTasks : At(i, t, "store")
    /\ klineCache' = MapPut(klineCache, KLineKeyOf(workers[i]),
                            CacheEntry(workers[i].data, now))
    /\ KLineGot(i, workers[i].data)
    /\ UNCHANGED <<WorkerFrame, pusherVars, cache, sink, upstream, klineRecorded>>

Latest(klines) == klines[Len(klines)]

\* The test that decides the incremental push.
ShouldPushMinute(lastTime, latestTime) == lastTime = 0 \/ latestTime # lastTime

\* p.klineSubMu.Lock: p.lastKLineTime = latestTime; then the test on the
\* values the task holds.
pushKLineMinute_SetTime(i) ==
    /\ At(i, "pushKLineMinute", "setTime")
    /\ LET latestTime == parseKLineTime(Latest(workers[i].data).Time)
       IN  /\ lastKLineTime' = latestTime
           /\ IF ShouldPushMinute(workers[i].lastTime, latestTime)
                THEN Goto(i, "emit")
                ELSE Return(i, "skipped")
    /\ klineRecorded' = TRUE
    /\ UNCHANGED <<WorkerFrame, RegistryRest, lastOrderBookHash, cacheVars, sink, upstream>>

\* A minute task that publishes the series it fetched, tagged incremental.
pushKLineMinute_EmitSeries(i) ==
    /\ At(i, "pushKLineMinute", "emit")
    /\ EventsEmit(EventKLineUpdate,
                  KLineUpdate(workers[i].code, "1m", workers[i].data, TRUE))
    /\ Return(i, "emitted")
    /\ UNCHANGED <<WorkerFrame, pusherVars, cacheVars, upstream, klineRecorded>>

\* EventsEmit of the newest bucket alone, tagged incremental.
pushKLineMinute_Emit(i) ==
    /\ At(i, "pushKLineMinute", "emit")
    /\ EventsEmit(EventKLineUpdate,
                  KLineUpdate(workers[i].code, "1m", <<Latest(workers[i].data)>>, TRUE))
    /\ Return(i, "emitted")
    /\ UNCHANGED <<WorkerFrame, pusherVars, cacheVars, upstream, klineRecorded>>

\* EventsEmit of the whole series (pushKLineData and pushKLineDay).
pushKLineData_Emit(i) ==
    /\ \E t \in {"pushKLineData", "pushKLineDay"} : At(i, t, "emit")
    /\ EventsEmit(EventKLineUpdate,
                  KLineUpdate(workers[i].code, workers[i].period, workers[i].data, FALSE))
    /\ Return(i, "emitted")
    /\ UNCHANGED <<WorkerFrame, pusherVars, cacheVars, upstream, klineRecorded>>

GetKLineData(i) ==
    \/ GetKLineData_Lookup(i)
    \/ GetKLineData_Fetch(i)
    \/ GetKLineData_Store(i)

-----------------------------------------------------------------------------
(* pushStockData, pushMarketIndices, pushTelegraphData, pushMarketStatus *)

\* p.mu.RLock: codes := copy of p.subscribedCodes
pushStockData_Read(i) ==
    /\ At(i, "pushStockData", "start")
    /\ mu = "free"
    /\ IF Len(subscribedCodes) = 0
         THEN Return(i, "skipped")
         ELSE SetWorker(i, [workers[i] EXCEPT !.pc = "fetch", !.codes = subscribedCodes])
    /\ UNCHANGED <<WorkerFrame, pusherVars, cacheVars, sink, upstream, klineRecorded>>

\* A quote read that goes through the quote/order-book cache.
GetStockRealTimeDataCached(i) ==
    /\ At(i, "pushStockData", "fetch")
    /\ LET cacheKey == workers[i].codes
       IN  IF CacheValid(cache, cacheKey, cacheTTL)
             THEN /\ SetWorker(i, [workers[i] EXCEPT !.pc = "emit",
                                                     !.data = cache[cacheKey].data])
                  /\ UNCHANGED <<cache, upstream>>
             ELSE /\ UpstreamServe(<<"quotes", workers[i].codes>>)
                  /\ \E r \in {Err, Ok(StocksOf(workers[i].codes))} :
                        IF r.err
                          THEN Return(i, "failed") /\ UNCHANGED cache
                          ELSE /\ SetWorker(i, [workers[i] EXCEPT !.pc = "emit",
                                                                  !.data = r.data])
                               /\ cache' = MapPut(cache, cacheKey, CacheEntry(r.data, now))
    /\ UNCHANGED <<WorkerFrame, pusherVars, klineCache, sink, klineRecorded>>

\* GetStockRealTimeData: always an upstream fetch.
\* A quote read that is handed p.subscribedCodes itself, not the copy.
GetStockRealTimeDataShared(i) ==
    /\ At(i, "pushStockData", "fetch")
    /\ UpstreamServe(<<"quotes", subscribedCodes>>)
    /\ \E r \in {Err, Ok(StocksOf(subscribedCodes))} :
          IF r.err THEN Return(i, "failed")
                   ELSE SetWorker(i, [workers[i] EXCEPT !.pc = "emit", !.data = r.data])
    /\ UNCHANGED <<WorkerFrame, pusherVars, cacheVars, sink, klineRecorded>>

GetStockRealTimeData(i) ==
    /\ At(i, "pushStockData", "fetch")
    /\ UpstreamServe(<<"quotes", workers[i].codes>>)
    /\ \E r \in {Err, Ok(StocksOf(workers[i].codes))} :
          IF r.err THEN Return(i, "failed")
                   ELSE SetWorker(i, [workers[i] EXCEPT !.pc = "emit", !.data = r.data])
    /\ UNCHANGED <<WorkerFrame, pusherVars, cacheVars, sink, klineRecorded>>

pushStockData_Emit(i) ==
    /\ At(i, "pushStockData", "emit")
    /\ EventsEmit(EventStockUpdate, workers[i].data)
    /\ Return(i, "emitted")
    /\ UNCHANGED <<WorkerFrame, pusherVars, cacheVars, upstream, klineRecorded>>

pushStockData(i) ==
    \/ pushStockData_Read(i)
    \/ GetStockRealTimeData(i)
    \/ pushStockData_Emit(i)

\* GetMarketIndices
pushMarketIndices_Fetch(i) ==
    /\ At(i, "pushMarketIndices", "start")
    /\ UpstreamServe(<<"indices", IndexList>>)
    /\ \E r \in {Err, Ok(IndexList)} :
          IF r.err THEN Return(i, "failed")
                   ELSE SetWorker(i, [workers[i] EXCEPT !.pc = "emit", !.data = r.data])
    /\ UNCHANGED <<WorkerFrame, pusherVars, cacheVars, sink, klineRecorded>>

pushMarketIndices_Emit(i) ==
    /\ At(i, "pushMarketIndices", "emit")
    /\ EventsEmit(EventMarketIndicesUpdate, workers[i].data)
    /\ Return(i, "emitted")
    /\ UNCHANGED <<WorkerFrame, pusherVars, cacheVars, upstream, klineRecorded>>

pushMarketIndices(i) ==
    \/ pushMarketIndices_Fetch(i)
    \/ pushMarketIndices_Emit(i)

\* p.newsService.GetTelegraphList(): an error or an empty list ends the task.
pushTelegraphData_Fetch(i) ==
    /\ At(i, "pushTelegraphData", "start")
    /\ \E r \in {Err, Ok(<<>>)} \cup {Ok(<<[Content |-> c]>>) : c \in Telegraphs} :
          IF r.err THEN Return(i, "failed")
          ELSE IF Len(r.data) = 0 THEN Return(i, "skipped")
          ELSE SetWorker(i, [workers[i] EXCEPT !.pc = "check", !.data = r.data])
    /\ UNCHANGED <<WorkerFrame, pusherVars, cacheVars, sink, upstream, klineRecorded>>

\* p.mu.Lock: compare with and set p.lastTelegraphContent
pushTelegraphData_Check(i) ==
    /\ At(i, "pushTelegraphData", "check")
    /\ IF workers[i].data[1].Content = lastTelegraphContent
         THEN Return(i, "skipped") /\ UNCHANGED lastTelegraphContent
         ELSE Goto(i, "emit") /\ lastTelegraphContent' = workers[i].data[1].Content
    /\ UNCHANGED <<WorkerFrame, subscribedCodes, currentOrderBook, klineSub, lastKLineTime,
                   lastOrderBookHash, lastMarketStatus, lastMarketStatusTime, cacheVars,
                   sink, upstream, klineRecorded>>

pushTelegraphData_Emit(i) ==
    /\ At(i, "pushTelegraphData", "emit")
    /\ EventsEmit(EventTelegraphUpdate, workers[i].data[1])
    /\ Return(i, "emitted")
    /\ UNCHANGED <<WorkerFrame, pusherVars, cacheVars, upstream, klineRecorded>>

pushTelegraphData(i) ==
    \/ pushTelegraphData_Fetch(i)
    \/ pushTelegraphData_Check(i)
    \/ pushTelegraphData_Emit(i)

\* status := p.marketService.GetMarketStatus(): the status of the time
\* GetMarketStatus reads on entry (now := time.Now()), kept beside it.
pushMarketStatus_Get(i) ==
    /\ At(i, "pushMarketStatus", "start")
    /\ SetWorker(i, [workers[i] EXCEPT !.pc = "check",
                                        !.data = <<MarketStatus(marketPhase), now>>])
    /\ UNCHANGED <<WorkerFrame, pusherVars, cacheVars, sink, upstream, klineRecorded>>

\* p.mu.Lock: compare with and set p.lastMarketStatus
pushMarketStatus_Check(i) ==
    /\ At(i, "pushMarketStatus", "check")
    /\ IF lastMarketStatus = workers[i].data[1].Status
         THEN Return(i, "skipped") /\ UNCHANGED <<lastMarketStatus, lastMarketStatusTime>>
         ELSE /\ Goto(i, "emit")
              /\ lastMarketStatus' = workers[i].data[1].Status
              /\ lastMarketStatusTime' = now
    /\ UNCHANGED <<WorkerFrame, subscribedCodes, currentOrderBook, klineSub, lastKLineTime,
                   lastOrderBookHash, lastTelegraphContent, cacheVars, sink, upstream,
                   klineRecorded>>

pushMarketStatus_Emit(i) ==
    /\ At(i, "pushMarketStatus", "emit")
    /\ EventsEmit(EventMarketStatusUpdate, workers[i].data[1])
    /\ Return(i, "emitted")
    /\ UNCHANGED <<WorkerFrame, pusherVars, cacheVars, upstream, klineRecorded>>

pushMarketStatus(i) ==
    \/ pushMarketStatus_Get(i)
    \/ pushMarketStatus_Check(i)
    \/ pushMarketStatus_Emit(i)


-----------------------------------------------------------------------------
(* Start, Stop and the subscription listeners *)

\* ConfigService.GetWatchlist() may hold any of these.
Watchlists == {<<>>, <<"sh600000">>, <<"sh600000", "sz000001">>}

\* Start: p.ctrlMu.Lock; if p.stopped return; p.ctx = ctx
Start_Check ==
    /\ ~crashed
    /\ startPc = "idle"
    /\ startPc' = IF stopped THEN "returned" ELSE "setupEventListeners"
    /\ UNCHANGED <<now, pusherVars, stopped, stopChan, loopPc, tickers, normalCount,
                   workers, crashed, cacheVars, listeners, inbox, sink, marketPhase,
                   upstream, klineRecorded, limit, extVars>>

\* setupEventListeners: three runtime.EventsOn
Start_setupEventListeners ==
    /\ ~crashed
    /\ startPc = "setupEventListeners"
    /\ listeners' = listeners \cup SubscribeEvents
    /\ startPc' = "initSubscriptions"
    /\ UNCHANGED <<now, pusherVars, stopped, stopChan, loopPc, tickers, normalCount,
                   workers, crashed, cacheVars, inbox, sink, marketPhase, upstream,
                   klineRecorded, limit, extVars>>

\* initSubscriptions: the watchlist's symbols; the first becomes the focus.
Start_initSubscriptions ==
    /\ ~crashed
    /\ startPc = "initSubscriptions"
    /\ mu = "free"
    /\ \E codes \in Watchlists :
          /\ subscribedCodes' = codes
          /\ currentOrderBook' = IF Len(codes) > 0 THEN codes[1] ELSE currentOrderBook
    /\ startPc' = "go pushLoop"
    /\ UNCHANGED <<now, klineSub, lastKLineTime, lastTelegraphContent, lastOrderBookHash,
                   lastMarketStatus, lastMarketStatusTime, stopped, stopChan, loopPc,
                   tickers, normalCount, workers, crashed, cacheVars, listeners, inbox,
                   sink, marketPhase, upstream, klineRecorded, limit, extVars>>

\* go p.pushLoop()
Start_go ==
    /\ ~crashed
    /\ startPc = "go pushLoop"
    /\ loopPc' = "start"
    /\ startPc' = "returned"
    /\ UNCHANGED <<now, pusherVars, stopped, stopChan, tickers, normalCount, workers,
                   crashed, cacheVars, listeners, inbox, sink, marketPhase, upstream,
                   klineRecorded, limit, extVars>>

Start == Start_Check \/ Start_setupEventListeners \/ Start_initSubscriptions \/ Start_go

\* close(ch): closing a channel that is already closed panics.
close ==
    IF stopChan = "closed"
      THEN crashed' = TRUE /\ UNCHANGED stopChan
      ELSE stopChan' = "closed" /\ UNCHANGED crashed

\* A Stop that leaves stopChan open.
StopWithoutClose ==
    /\ ~crashed
    /\ stopCalls < limit.calls
    /\ stopCalls' = stopCalls + 1
    /\ stopped' = TRUE
    /\ listeners' = listeners \ SubscribeEvents
    /\ UNCHANGED <<now, pusherVars, stopChan, startPc, loopPc, tickers, normalCount,
                   workers, crashed, cacheVars, inbox, sink, marketPhase, upstream,
                   klineRecorded, limit, mu, updateCodes, opLog,
                   calendarVars, args>>

\* A Stop without the check of p.stopped.
StopUnchecked ==
    /\ ~crashed
    /\ stopCalls < limit.calls
    /\ stopCalls' = stopCalls + 1
    /\ stopped' = TRUE
    /\ close
    /\ listeners' = listeners \ SubscribeEvents
    /\ UNCHANGED <<now, pusherVars, startPc, loopPc, tickers, normalCount, workers,
                   cacheVars, inbox, sink, marketPhase, upstream, klineRecorded, limit, mu, updateCodes, opLog,
                   calendarVars, args>>

\* Stop, the whole call under p.ctrlMu: a call that finds p.stopped set
\* returns; otherwise it sets stopped, closes stopChan and removes the three
\* listeners.
Stop ==
    /\ ~crashed
    /\ stopCalls < limit.calls
    /\ stopCalls' = stopCalls + 1
    /\ IF stopped
         THEN UNCHANGED <<stopped, stopChan, crashed, listeners>>
         ELSE /\ stopped' = TRUE
              /\ close
              /\ listeners' = listeners \ SubscribeEvents
    /\ UNCHANGED <<now, pusherVars, startPc, loopPc, tickers, normalCount, workers,
                   cacheVars, inbox, sink, marketPhase, upstream, klineRecorded, limit, mu, updateCodes, opLog,
                   calendarVars, args>>

\* The presentation layer emits a subscription request.
KLineRequests == {<<c, p>> : c \in Codes \cup {""}, p \in Periods \cup {""}}

EmitRequest(name, data) ==
    /\ inbox = NoReq
    /\ inbox' = [name |-> name, data |-> data]
    /\ UNCHANGED <<now, pusherVars, ctrlVars, workers, crashed, cacheVars, listeners,
                   sink, marketPhase, upstream, klineRecorded, limit, extVars>>

\* The host delivers a request nobody listens to: it is dropped.
DropRequest ==
    /\ ~crashed
    /\ inbox # NoReq
    /\ inbox.name \notin listeners
    /\ inbox' = NoReq
    /\ UNCHANGED <<now, pusherVars, ctrlVars, workers, crashed, cacheVars, listeners,
                   sink, marketPhase, upstream, klineRecorded, limit, extVars>>

\* Listener of EventOrderBookSubscribe: p.currentOrderBook = code
OnOrderBookSubscribe ==
    /\ ~crashed
    /\ inbox.name = EventOrderBookSubscribe
    /\ EventOrderBookSubscribe \in listeners
    /\ mu = "free"
    /\ currentOrderBook' = inbox.data[1]
    /\ inbox' = NoReq
    /\ UNCHANGED <<now, subscribedCodes, klineSub, lastKLineTime, lastTelegraphContent,
                   lastOrderBookHash, lastMarketStatus, lastMarketStatusTime, ctrlVars,
                   workers, crashed, cacheVars, listeners, sink, marketPhase, upstream,
                   klineRecorded, limit, extVars>>

\* A listener that replaces the subscription but keeps lastKLineTime.
OnKLineSubscribeKeepMarker ==
    /\ ~crashed
    /\ inbox.name = EventKLineSubscribe
    /\ EventKLineSubscribe \in listeners
    /\ LET code == inbox.data[1]
           period == inbox.data[2]
       IN  IF code # "" /\ period # ""
             THEN /\ klineSub' = [Code |-> code, Period |-> period]
                  /\ UNCHANGED <<lastKLineTime, klineRecorded>>
                  /\ Spawn(<<"pushKLineData">>, FALSE)
             ELSE UNCHANGED <<klineSub, lastKLineTime, klineRecorded, workers>>
    /\ inbox' = NoReq
    /\ UNCHANGED <<now, subscribedCodes, currentOrderBook, lastTelegraphContent,
                   lastOrderBookHash, lastMarketStatus, lastMarketStatusTime, ctrlVars,
                   crashed, cacheVars, listeners, sink, marketPhase, upstream, limit, extVars>>

\* Listener of EventKLineSubscribe: with a non-empty code and period, replace
\* the subscription and reset lastKLineTime under klineSubMu, then
\* go safeCall(p.pushKLineData).
OnKLineSubscribe ==
    /\ ~crashed
    /\ inbox.name = EventKLineSubscribe
    /\ EventKLineSubscribe \in listeners
    /\ LET code == inbox.data[1]
           period == inbox.data[2]
       IN  IF code # "" /\ period # ""
             THEN /\ klineSub' = [Code |-> code, Period |-> period]
                  /\ lastKLineTime' = 0
                  /\ klineRecorded' = FALSE
                  /\ Spawn(<<"pushKLineData">>, FALSE)
             ELSE UNCHANGED <<klineSub, lastKLineTime, klineRecorded, workers>>
    /\ inbox' = NoReq
    /\ UNCHANGED <<now, subscribedCodes, currentOrderBook, lastTelegraphContent,
                   lastOrderBookHash, lastMarketStatus, lastMarketStatusTime, ctrlVars,
                   crashed, cacheVars, listeners, sink, marketPhase, upstream, limit, extVars>>

-----------------------------------------------------------------------------
(* pushLoop and runParallel *)

AllTickers(running) == [t \in Tiers |-> [running |-> running, pending |-> FALSE]]

\* A ticker's period elapses: a tick is buffered unless one already is.
TickerFire(t) ==
    /\ tickers[t].running
    /\ ~tickers[t].pending
    /\ tickers' = [tickers EXCEPT ![t].pending = TRUE]
    /\ UNCHANGED <<now, pusherVars, stopped, stopChan, startPc, loopPc, normalCount,
                   workers, crashed, cacheVars, listeners, inbox, sink, marketPhase,
                   upstream, klineRecorded, limit, extVars>>

\* A dispatch that starts its goroutines and does not wait for them.
runParallelNoWait(fns) ==
    /\ Spawn(fns, FALSE)
    /\ UNCHANGED loopPc

\* runParallel(timeout, fns...): one goroutine per fn, then wait.
runParallel(fns) ==
    /\ Spawn(fns, TRUE)
    /\ loopPc' = "wait"

\* A tick whose handler selects no task leaves the loop in its select.
Dispatch(fns) ==
    IF Len(fns) = 0 THEN UNCHANGED <<workers, loopPc>> ELSE runParallel(fns)

Joined == {i \in WorkerIds : workers[i].joined}

\* case <-done: every worker of the dispatch has called wg.Done.
runParallel_Done ==
    /\ ~crashed
    /\ loopPc = "wait"
    /\ \A i \in Joined : ~Running(i)
    /\ loopPc' = "select"
    /\ workers' = [i \in WorkerIds |-> [workers[i] EXCEPT !.joined = FALSE]]
    /\ UNCHANGED <<now, pusherVars, stopped, stopChan, startPc, tickers, normalCount,
                   crashed, cacheVars, listeners, inbox, sink, marketPhase, upstream,
                   klineRecorded, limit, extVars>>

\* A timeout that ends the workers it abandons.
runParallel_TimeoutCancels ==
    /\ ~crashed
    /\ loopPc = "wait"
    /\ loopPc' = "select"
    /\ workers' = [i \in WorkerIds |->
                     IF workers[i].joined /\ Running(i)
                       THEN Finished([workers[i] EXCEPT !.joined = FALSE], "cancelled")
                       ELSE [workers[i] EXCEPT !.joined = FALSE]]
    /\ UNCHANGED <<now, pusherVars, stopped, stopChan, startPc, tickers, normalCount,
                   crashed, cacheVars, listeners, inbox, sink, marketPhase, upstream,
                   klineRecorded, limit, extVars>>

\* case <-time.After(timeout): the wait is given up; the workers run on.
runParallel_Timeout ==
    /\ ~crashed
    /\ loopPc = "wait"
    /\ loopPc' = "select"
    /\ workers' = [i \in WorkerIds |->
                     [workers[i] EXCEPT !.joined = FALSE,
                                        !.late = @ \/ (workers[i].joined /\ Running(i))]]
    /\ UNCHANGED <<now, pusherVars, stopped, stopChan, startPc, tickers, normalCount,
                   crashed, cacheVars, listeners, inbox, sink, marketPhase, upstream,
                   klineRecorded, limit, extVars>>

\* pushLoop up to its for loop: four tickers, then the immediate push.
pushLoop_Begin ==
    /\ ~crashed
    /\ loopPc = "start"
    /\ tickers' = AllTickers(TRUE)
    /\ runParallel(<<"pushStockData", "pushOrderBookData", "pushTelegraphData",
                     "pushMarketStatus", "pushMarketIndices", "pushKLineData">>)
    /\ UNCHANGED <<now, pusherVars, stopped, stopChan, startPc, normalCount, crashed,
                   cacheVars, listeners, inbox, sink, marketPhase, upstream, klineRecorded, limit, extVars>>

\* case <-p.stopChan: return; the deferred Stop of the four tickers runs.
pushLoop_Stop ==
    /\ ~crashed
    /\ loopPc = "select"
    /\ stopChan = "closed"
    /\ loopPc' = "exited"
    /\ tickers' = [t \in Tiers |-> [tickers[t] EXCEPT !.running = FALSE]]
    /\ UNCHANGED <<now, pusherVars, stopped, stopChan, startPc, normalCount, workers,
                   crashed, cacheVars, listeners, inbox, sink, marketPhase, upstream,
                   klineRecorded, limit, extVars>>

\* getMarketPhase: the cached phase while it is younger than 10 s and not
\* empty, else GetMarketStatus, stored with the current time.
PhaseCached == Since(lastMarketStatusTime) < phaseCacheTTL /\ lastMarketStatus # ""
getMarketPhase == IF PhaseCached THEN lastMarketStatus ELSE marketPhase
getMarketPhase_Store ==
    IF PhaseCached
      THEN UNCHANGED <<lastMarketStatus, lastMarketStatusTime>>
      ELSE lastMarketStatus' = marketPhase /\ lastMarketStatusTime' = now

\* A receive of a tick that does not wait for the dispatch under way.
TakeTickAnytime(t) ==
    /\ ~crashed
    /\ loopPc \in {"select", "wait"}
    /\ tickers[t].pending
    /\ tickers' = [tickers EXCEPT ![t].pending = FALSE]

\* The receive of a tick in pushLoop's select.
TakeTick(t) ==
    /\ ~crashed
    /\ loopPc = "select"
    /\ tickers[t].pending
    /\ tickers' = [tickers EXCEPT ![t].pending = FALSE]

LoopFrame == <<now, subscribedCodes, currentOrderBook, klineSub, lastKLineTime,
               lastTelegraphContent, lastOrderBookHash, stopped, stopChan, startPc,
               crashed, cacheVars, listeners, inbox, sink, marketPhase, upstream,
               klineRecorded, limit, extVars>>

\* A fast tick that dispatches the order-book task in every phase.
pushLoop_FastAlways ==
    /\ TakeTick("fast")
    /\ getMarketPhase_Store
    /\ Dispatch(<<"pushOrderBookData">>)
    /\ UNCHANGED <<LoopFrame, normalCount>>

\* case <-fastTicker.C
pushLoop_Fast ==
    /\ TakeTick("fast")
    /\ getMarketPhase_Store
    /\ Dispatch(IF getMarketPhase = "trading" THEN <<"pushOrderBookData">> ELSE <<>>)
    /\ UNCHANGED <<LoopFrame, normalCount>>

\* A task set that holds the status task on every normal tick of trading.
NormalTasksStatusAlways(status, count) ==
    IF status = "trading"
      THEN <<"pushStockData", "pushMarketIndices", "pushKLineMinute", "pushMarketStatus">>
      ELSE <<>>

\* A task set that uses the pre_market cadence in every phase but trading.
NormalTasksEveryThird(status, count) ==
    CASE status = "trading" ->
           IF count % 2 = 0
             THEN <<"pushStockData", "pushMarketIndices", "pushKLineMinute",
                    "pushMarketStatus">>
             ELSE <<"pushStockData", "pushMarketIndices", "pushKLineMinute">>
      [] status = "pre_market" ->
           IF count % 3 = 0
             THEN <<"pushStockData", "pushOrderBookData", "pushMarketIndices">>
             ELSE <<>>
      [] status = "lunch_break" ->
           IF count % 3 = 0
             THEN <<"pushStockData", "pushMarketIndices", "pushMarketStatus">>
             ELSE <<>>
      [] OTHER ->
           IF count % 3 = 0
             THEN <<"pushStockData", "pushMarketIndices", "pushOrderBookData",
                    "pushKLineData", "pushMarketStatus">>
             ELSE <<>>

\* The task set of a normal tick, by phase and tick count.
NormalTasks(status, count) ==
    CASE status = "trading" ->
           IF count % 2 = 0
             THEN <<"pushStockData", "pushMarketIndices", "pushKLineMinute",
                    "pushMarketStatus">>
             ELSE <<"pushStockData", "pushMarketIndices", "pushKLineMinute">>
      [] status = "pre_market" ->
           IF count % 3 = 0
             THEN <<"pushStockData", "pushOrderBookData", "pushMarketIndices">>
             ELSE <<>>
      [] status = "lunch_break" ->
           IF count % 5 = 0
             THEN <<"pushStockData", "pushMarketIndices", "pushMarketStatus">>
             ELSE <<>>
      [] OTHER ->
           IF count % 10 = 0
             THEN <<"pushStockData", "pushMarketIndices", "pushOrderBookData",
                    "pushKLineData", "pushMarketStatus">>
             ELSE <<>>

\* case <-normalTicker.C
pushLoop_Normal ==
    /\ TakeTick("normal")
    /\ normalCount < limit.ticks
    /\ normalCount' = normalCount + 1
    /\ getMarketPhase_Store
    /\ Dispatch(NormalTasks(getMarketPhase, normalCount'))
    /\ UNCHANGED LoopFrame

\* case <-slowTicker.C
pushLoop_Slow ==
    /\ TakeTick("slow")
    /\ runParallel(<<"pushTelegraphData">>)
    /\ UNCHANGED <<LoopFrame, normalCount, lastMarketStatus, lastMarketStatusTime>>

\* case <-klineDayTicker.C
pushLoop_KLineDay ==
    /\ TakeTick("klineDay")
    /\ getMarketPhase_Store
    /\ Dispatch(IF getMarketPhase = "trading" THEN <<"pushKLineDay">> ELSE <<>>)
    /\ UNCHANGED <<LoopFrame, normalCount>>

-----------------------------------------------------------------------------
(* Environment *)

\* A second passes.
Tick ==
    /\ now < limit.time
    /\ now' = now + 1
    /\ UNCHANGED <<pusherVars, ctrlVars, workers, crashed, cacheVars, listeners, inbox,
                   sink, marketPhase, upstream, klineRecorded, limit, extVars>>

EmptyMap == [k \in {} |-> 0]
NoEvents == [c \in Channels |-> <<>>]
NoSubscription == [Code |-> "", Period |-> ""]


-----------------------------------------------------------------------------
(* Initial states *)

\* NewMarketService and NewMarketDataPusher have run; Start has not.
PusherConstructed(bounds) ==
    /\ now = 0
    /\ subscribedCodes = <<>>
    /\ currentOrderBook = ""
    /\ klineSub = NoSubscription
    /\ lastKLineTime = 0
    /\ lastTelegraphContent = ""
    /\ lastOrderBookHash = NoHash
    /\ lastMarketStatus = ""
    /\ lastMarketStatusTime = ZeroTime
    /\ stopped = FALSE
    /\ stopChan = "open"
    /\ startPc = "idle"
    /\ loopPc = "none"
    /\ tickers = AllTickers(FALSE)
    /\ normalCount = 0
    /\ workers = <<>>
    /\ crashed = FALSE
    /\ cache = EmptyMap
    /\ klineCache = EmptyMap
    /\ listeners = {}
    /\ inbox = NoReq
    /\ sink = NoEvents
    /\ marketPhase \in Phases
    /\ upstream = EmptyMap
    /\ klineRecorded = FALSE
    /\ limit = bounds
    /\ stopCalls = 0
    /\ mu = "free"
    /\ updateCodes = <<>>
    /\ opLog = <<>>

\* No call into the trading calendar has been made: nothing is loaded.
CalendarAtRest ==
    /\ clock = [day |-> 0, minute |-> 0]
    /\ holidayCacheData = EmptyMap
    /\ holidayFiles = EmptyMap
    /\ tradeDatesFile = [exists |-> FALSE, TradeDates |-> <<>>, UpdatedAt |-> 0]
    /\ answer = [call |-> "none"]
    /\ args = NoArgs

ConstructedWith(bounds) == PusherConstructed(bounds) /\ CalendarAtRest

Constructed(spawn, ticks, time) == ConstructedWith(Limit(spawn, ticks, time))

\* The control loop in its select with no worker running; the clock and
\* the caches are left to the caller.
LoopInSelect(bounds) ==
    /\ lastTelegraphContent = ""
    /\ stopped = FALSE
    /\ stopChan = "open"
    /\ startPc = "returned"
    /\ loopPc = "select"
    /\ tickers = AllTickers(TRUE)
    /\ normalCount = 0
    /\ workers = <<>>
    /\ crashed = FALSE
    /\ listeners = SubscribeEvents
    /\ inbox = NoReq
    /\ sink = NoEvents
    /\ upstream = EmptyMap
    /\ limit = bounds
    /\ stopCalls = 0
    /\ mu = "free"
    /\ updateCodes = <<>>
    /\ opLog = <<>>
    /\ CalendarAtRest

\* The scheduler in service: Start has returned, the immediate push of
\* pushLoop is over and the loop is in its select.  Workers, events and
\* upstream calls are counted from this moment.
InServiceWith(bounds) ==
    /\ now = 0
    /\ lastMarketStatusTime = 0
    /\ cache = EmptyMap
    /\ klineCache = EmptyMap
    /\ LoopInSelect(bounds)

InService(spawn, ticks, time) == InServiceWith(Limit(spawn, ticks, time))

-----------------------------------------------------------------------------
(* The order-book path: fast ticks during trading *)

InitOrderBook ==
    /\ InService(MaxSpawn, 0, MaxTime)
    /\ marketPhase = "trading"
    /\ lastMarketStatus = "trading"
    /\ subscribedCodes = <<"sh600000">>
    /\ currentOrderBook = "sh600000"
    /\ lastOrderBookHash \in {NoHash, orderBookHash(BookA)}
    /\ klineSub = NoSubscription
    /\ lastKLineTime = 0
    /\ klineRecorded = FALSE

NextOrderBook ==
    \/ Tick
    \/ TickerFire("fast")
    \/ pushLoop_Fast
    \/ runParallel_Done
    \/ runParallel_Timeout
    \/ \E i \in WorkerIds : pushOrderBookData_Read(i)
    \/ \E i \in WorkerIds : GetStockDataWithOrderBook_Lookup(i)
    \/ \E i \in WorkerIds : GetStockDataWithOrderBook_Fetch(i)
    \/ \E i \in WorkerIds : GetStockDataWithOrderBook_Store(i)
    \/ \E i \in WorkerIds : pushOrderBookData_SetHash(i)
    \/ \E i \in WorkerIds : pushOrderBookData_Emit(i)

SpecOrderBook == InitOrderBook /\ [][NextOrderBook]_vars


-----------------------------------------------------------------------------
(* The minute-candle path: normal ticks during trading.  The quote, index  *)
(* and status workers of a normal dispatch are spawned but take no step    *)
(* here (they share no state with the candle tasks), so a normal dispatch  *)
(* ends by its timeout.                                                    *)

InitKLine ==
    /\ InService(MaxSpawn + 6, MaxTicks, MaxTime)
    /\ marketPhase = "trading"
    /\ lastMarketStatus = "trading"
    /\ subscribedCodes = <<"sh600000">>
    /\ currentOrderBook = "sh600000"
    /\ lastOrderBookHash = NoHash
    /\ klineSub = [Code |-> "sh600000", Period |-> "1m"]
    /\ lastKLineTime = 0
    /\ klineRecorded = FALSE

NextKLine ==
    \/ Tick
    \/ TickerFire("normal")
    \/ pushLoop_Normal
    \/ runParallel_Timeout
    \/ \E i \in WorkerIds : pushKLineMinute_Read(i)
    \/ \E i \in WorkerIds : GetKLineData_Lookup(i)
    \/ \E i \in WorkerIds : GetKLineData_Fetch(i)
    \/ \E i \in WorkerIds : GetKLineData_Store(i)
    \/ \E i \in WorkerIds : pushKLineMinute_SetTime(i)
    \/ \E i \in WorkerIds : pushKLineMinute_Emit(i)

SpecKLine == InitKLine /\ [][NextKLine]_vars

-----------------------------------------------------------------------------
(* Candle subscription requests from the front end and the full pushes     *)
(* they trigger, starting with or without a minute candle already pushed.  *)

InitSubscribe ==
    /\ InService(MaxSpawn, 0, MaxTime)
    /\ marketPhase = "trading"
    /\ lastMarketStatus = "trading"
    /\ subscribedCodes = <<"sh600000">>
    /\ currentOrderBook = "sh600000"
    /\ lastOrderBookHash = NoHash
    /\ klineSub \in {NoSubscription, [Code |-> "sh600000", Period |-> "1m"]}
    /\ lastKLineTime \in {0, parseKLineTime(T0931)}
    /\ klineRecorded = (lastKLineTime # 0)
    /\ (klineSub = NoSubscription) => (lastKLineTime = 0)

NextSubscribe ==
    \/ Tick
    \/ \E r \in KLineRequests : EmitRequest(EventKLineSubscribe, r)
    \/ OnKLineSubscribe
    \/ \E i \in WorkerIds : pushKLineData_Read(i)
    \/ \E i \in WorkerIds : GetKLineData_Lookup(i)
    \/ \E i \in WorkerIds : GetKLineData_Fetch(i)
    \/ \E i \in WorkerIds : GetKLineData_Store(i)
    \/ \E i \in WorkerIds : pushKLineData_Emit(i)

SpecSubscribe == InitSubscribe /\ [][NextSubscribe]_vars

-----------------------------------------------------------------------------
(* The control loop in service during trading, with one watched symbol and *)
(* neither a focus symbol nor a candle subscription: normal and fast       *)
(* ticks, panicking tasks, and Stop.  None of the tasks that run here      *)
(* reads a cache, so the clock stands still.                               *)

InitLoop ==
    /\ InService(MaxSpawn + 2, MaxTicks, 0)
    /\ marketPhase = "trading"
    /\ lastMarketStatus = "trading"
    /\ subscribedCodes = <<"sh600000">>
    /\ currentOrderBook = ""
    /\ lastOrderBookHash = NoHash
    /\ klineSub = NoSubscription
    /\ lastKLineTime = 0
    /\ klineRecorded = FALSE

NextLoop ==
    \/ Stop
    \/ pushLoop_Stop
    \/ TickerFire("normal")
    \/ TickerFire("fast")
    \/ pushLoop_Fast
    \/ pushLoop_Normal
    \/ runParallel_Done
    \/ runParallel_Timeout
    \/ \E i \in WorkerIds : TaskPanics(i)
    \/ \E i \in WorkerIds : pushStockData_Read(i)
    \/ \E i \in WorkerIds : GetStockRealTimeData(i)
    \/ \E i \in WorkerIds : pushStockData_Emit(i)
    \/ \E i \in WorkerIds : pushMarketIndices_Fetch(i)
    \/ \E i \in WorkerIds : pushMarketIndices_Emit(i)
    \/ \E i \in WorkerIds : pushOrderBookData_Read(i)
    \/ \E i \in WorkerIds : pushKLineMinute_Read(i)

SpecLoop == InitLoop /\ [][NextLoop]_vars

\* time.After fires, so a wait in runParallel ends; Go's select picks among
\* its ready cases at random, so a closed stopChan is not passed over for
\* ever.
FairSpecLoop ==
    /\ SpecLoop
    /\ WF_vars(runParallel_Timeout)
    /\ SF_vars(pushLoop_Stop)

-----------------------------------------------------------------------------
(* Trading with a focus symbol and a 1m candle subscription: the fast and  *)
(* normal ticks with every task they start and every result their fetches  *)
(* can have, within one second (the clock stands still).                   *)

InitTrading ==
    /\ InService(MaxSpawn + 1, MaxTicks, 0)
    /\ marketPhase = "trading"
    /\ lastMarketStatus = "trading"
    /\ subscribedCodes = <<"sh600000">>
    /\ currentOrderBook = "sh600000"
    /\ lastOrderBookHash = orderBookHash(BookA)
    /\ klineSub = [Code |-> "sh600000", Period |-> "1m"]
    /\ lastKLineTime = parseKLineTime(T0931)
    /\ klineRecorded = TRUE

NextTrading ==
    \/ \E t \in {"fast", "normal"} : TickerFire(t)
    \/ pushLoop_Fast
    \/ pushLoop_Normal
    \/ runParallel_Done
    \/ runParallel_Timeout
    \/ \E i \in WorkerIds : pushStockData(i)
    \/ \E i \in WorkerIds : pushMarketIndices(i)
    \/ \E i \in WorkerIds : pushOrderBookData(i)
    \/ \E i \in WorkerIds : pushKLineMinute_Read(i)
    \/ \E i \in WorkerIds : GetKLineData(i)
    \/ \E i \in WorkerIds : pushKLineMinute_SetTime(i)
    \/ \E i \in WorkerIds : pushKLineMinute_Emit(i)

SpecTrading == InitTrading /\ [][NextTrading]_vars

-----------------------------------------------------------------------------
(* Both caches against the clock: order-book reads started by fast ticks   *)
(* and full candle reads started by subscription requests.                 *)

InitCache ==
    /\ InService(MaxSpawn, 0, MaxTime)
    /\ marketPhase = "trading"
    /\ lastMarketStatus = "trading"
    /\ subscribedCodes = <<"sh600000">>
    /\ currentOrderBook = "sh600000"
    /\ lastOrderBookHash = NoHash
    /\ klineSub = NoSubscription
    /\ lastKLineTime = 0
    /\ klineRecorded = FALSE

NextCache ==
    \/ Tick
    \/ TickerFire("fast")
    \/ pushLoop_Fast
    \/ runParallel_Done
    \/ runParallel_Timeout
    \/ EmitRequest(EventKLineSubscribe, <<"sh600000", "1d">>)
    \/ OnKLineSubscribe
    \/ \E i \in WorkerIds : pushOrderBookData_Read(i)
    \/ \E i \in WorkerIds : GetStockDataWithOrderBook_Lookup(i)
    \/ \E i \in WorkerIds : GetStockDataWithOrderBook_Fetch(i)
    \/ \E i \in WorkerIds : GetStockDataWithOrderBook_Store(i)
    \/ \E i \in WorkerIds : pushOrderBookData_SetHash(i)
    \/ \E i \in WorkerIds : pushOrderBookData_Emit(i)
    \/ \E i \in WorkerIds : pushKLineData_Read(i)
    \/ \E i \in WorkerIds : GetKLineData_Lookup(i)
    \/ \E i \in WorkerIds : GetKLineData_Fetch(i)
    \/ \E i \in WorkerIds : GetKLineData_Store(i)
    \/ \E i \in WorkerIds : pushKLineData_Emit(i)

SpecCache == InitCache /\ [][NextCache]_vars

-----------------------------------------------------------------------------
(* The quote task: normal ticks during trading with one watched symbol and *)
(* no candle subscription, in the time before a cache entry made at the    *)
(* start would expire.                                                     *)

InitQuotes ==
    /\ InService(MaxSpawn + 5, MaxTicks, cacheTTL - 1)
    /\ marketPhase = "trading"
    /\ lastMarketStatus = "trading"
    /\ subscribedCodes = <<"sh600000">>
    /\ currentOrderBook = ""
    /\ lastOrderBookHash = NoHash
    /\ klineSub = NoSubscription
    /\ lastKLineTime = 0
    /\ klineRecorded = FALSE

NextQuotes ==
    \/ Tick
    \/ TickerFire("normal")
    \/ pushLoop_Normal
    \/ runParallel_Done
    \/ runParallel_Timeout
    \/ \E i \in WorkerIds : pushStockData_Read(i)
    \/ \E i \in WorkerIds : GetStockRealTimeData(i)
    \/ \E i \in WorkerIds : pushStockData_Emit(i)
    \/ \E i \in WorkerIds : pushMarketIndices(i)
    \/ \E i \in WorkerIds : pushKLineMinute_Read(i)
    \/ \E i \in WorkerIds : pushMarketStatus(i)

SpecQuotes == InitQuotes /\ [][NextQuotes]_vars

-----------------------------------------------------------------------------
(* Claims *)

Published(channel) == sink[channel]
Range(seq) == {seq[k] : k \in 1..Len(seq)}

\* C1: no two consecutively published order-book events carry snapshots
\* with equal fingerprints, in every interleaving of the order-book workers
\* (a worker abandoned by a timed-out tick may overlap with the next one).
C1_NoRepeatedOrderBookPush ==
    \A k \in 1..(Len(Published(EventOrderBookUpdate)) - 1) :
        orderBookHash(Published(EventOrderBookUpdate)[k])
            # orderBookHash(Published(EventOrderBookUpdate)[k + 1])

\* C9: a response without a usable record makes the order-book task skip
\* the cycle: it publishes nothing and keeps the recorded fingerprint.  The
\* upstream of this model reports no book without levels, so the zero
\* OrderBook can only come from a response without a record.
C9_NoRecordSkipsCycle ==
    /\ EmptyOrderBook \notin Range(Published(EventOrderBookUpdate))
    /\ lastOrderBookHash # orderBookHash(EmptyOrderBook)

\* C2: the minute task publishes an incremental candle only when nothing was
\* recorded when it read the marker, or the newest bucket's timestamp differs
\* from the marker it read; a bucket with the recorded timestamp (0 included)
\* is not published again.
C2_MinutePushOnlyOnNewBucket ==
    [][\A i \in WorkerIds :
          (At(i, "pushKLineMinute", "setTime") /\ workers'[i].pc = "emit")
             => \/ ~workers[i].hadRecord
                \/ parseKLineTime(Latest(workers[i].data).Time) # workers[i].lastTime]_vars

\* The step in which the listener consumes a candle subscription request.
C3_KLineSubscribeStep ==
    /\ inbox.name = EventKLineSubscribe
    /\ inbox' = NoReq
    /\ EventKLineSubscribe \in listeners

\* C3: the listener of a candle subscription request, given a non-empty code
\* and period, replaces the subscription, resets the marker to 0 and starts
\* the full push, all in the step that consumes the request; given an empty
\* code or period it changes none of them.  The subscription never changes
\* without the marker being 0 afterwards, and a full push is never tagged
\* incremental.
C3_SubscribeReplacesAndResets ==
    [][/\ C3_KLineSubscribeStep =>
            IF inbox.data[1] # "" /\ inbox.data[2] # ""
              THEN /\ klineSub' = [Code |-> inbox.data[1], Period |-> inbox.data[2]]
                   /\ lastKLineTime' = 0
                   /\ Len(workers') = Len(workers) + 1
                   /\ workers'[Len(workers')].task = "pushKLineData"
                   /\ workers'[Len(workers')].pc = "start"
              ELSE UNCHANGED <<klineSub, lastKLineTime, workers>>
       /\ (klineSub' # klineSub) => (lastKLineTime' = 0)
       /\ \A i \in WorkerIds :
             (At(i, "pushKLineData", "emit") /\ workers'[i].outcome = "emitted")
                => /\ Len(Published(EventKLineUpdate)') = Len(Published(EventKLineUpdate)) + 1
                   /\ ~Latest(Published(EventKLineUpdate)').incremental]_vars

\* A request has set the subscription to sz000001 at 1d, the marker is 0, and
\* the full push for the new subscription has reached the sink.
C3_Witness ==
    /\ klineSub = [Code |-> "sz000001", Period |-> "1d"]
    /\ lastKLineTime = 0
    /\ \E k \in 1..Len(Published(EventKLineUpdate)) :
          /\ Published(EventKLineUpdate)[k].code = "sz000001"
          /\ Published(EventKLineUpdate)[k].period = "1d"
          /\ ~Published(EventKLineUpdate)[k].incremental
          /\ Len(Published(EventKLineUpdate)[k].data) > 0

\* The step in which runParallel returns.
C4_ReturnStep == loopPc = "wait" /\ loopPc' # "wait"

\* C4: runParallel can return whenever its timeout fires and whenever all
\* its workers are done; the step in which it returns takes the loop back to
\* its select and ends no worker: every worker keeps its position, and only
\* workers that were still running are marked as abandoned.
C4_DispatchReturns ==
    /\ [](loopPc = "wait" => ENABLED runParallel_Timeout)
    /\ []((loopPc = "wait" /\ \A i \in Joined : ~Running(i)) => ENABLED runParallel_Done)
    /\ [][C4_ReturnStep =>
            /\ loopPc' = "select"
            /\ Len(workers') = Len(workers)
            /\ \A i \in WorkerIds :
                  /\ workers'[i].pc = workers[i].pc
                  /\ workers'[i].outcome = workers[i].outcome
                  /\ workers'[i].data = workers[i].data
                  /\ ~workers'[i].joined
                  /\ workers'[i].late # workers[i].late
                        => (workers[i].joined /\ Running(i))]_vars

\* A worker abandoned by a timed-out dispatch has published, and the loop
\* has dispatched a later tick.
C4_Witness ==
    \E i, j \in WorkerIds :
       /\ i < j
       /\ workers[i].late
       /\ workers[i].outcome = "emitted"
       /\ workers[j].task = "pushOrderBookData"
       /\ Len(Published(EventStockUpdate)) + Len(Published(EventMarketIndicesUpdate)) > 0

\* The step in which worker i ends by a panic or a failed fetch.
C5_FailureStep(i) ==
    /\ Running(i)
    /\ workers'[i].outcome \in {"panicked", "failed"}

\* C5: a task that panics or fails ends as a finished worker; the step in
\* which it does so changes no other worker, not the loop and not the
\* tickers, and the process never goes down; a dispatch whose workers are
\* all finished, panicked ones included, can return.
C5_FailureIsolated ==
    /\ [](~crashed)
    /\ [](\A i \in WorkerIds : workers[i].outcome \in {"panicked", "failed"} => ~Running(i))
    /\ []((loopPc = "wait" /\ \A i \in Joined : ~Running(i)) => ENABLED runParallel_Done)
    /\ [][\A i \in WorkerIds : C5_FailureStep(i) =>
            /\ Len(workers') = Len(workers)
            /\ \A j \in WorkerIds \ {i} : workers'[j] = workers[j]
            /\ UNCHANGED <<loopPc, tickers, stopChan, sink>>]_vars

\* The quote task of a normal dispatch panicked, its sibling published the
\* indices within the dispatch, and the loop dispatched a later tick.
C5_Witness ==
    \E i, k \in WorkerIds :
       /\ i + 2 < k
       /\ workers[i].task = "pushStockData" /\ workers[i].outcome = "panicked"
       /\ workers[i + 1].task = "pushMarketIndices"
       /\ workers[i + 1].outcome = "emitted" /\ ~workers[i + 1].late
       /\ Len(Published(EventMarketIndicesUpdate)) > 0
       /\ loopPc = "select"

\* C10: once Stop has been called the loop exits, given that a wait in
\* runParallel ends and a closed stopChan is eventually selected; when the
\* loop has exited its four tickers are stopped and no worker is started any
\* more; after Stop the three listeners are gone; the step of Stop itself
\* changes no worker.
C10_StopEndsLoop ==
    /\ (stopped /\ loopPc # "exited") ~> (loopPc = "exited")
    /\ [](loopPc = "exited" => \A t \in Tiers : ~tickers[t].running)
    /\ [](stopped => listeners \cap SubscribeEvents = {})
    /\ [][loopPc = "exited" => (loopPc' = "exited" /\ Len(workers') = Len(workers))]_vars
    /\ [][(stopped' /\ ~stopped) => workers' = workers]_vars

\* The loop has exited after Stop while a worker started before is about to
\* publish.
C10_Witness ==
    /\ stopped
    /\ loopPc = "exited"
    /\ \E i \in WorkerIds : workers[i].pc = "emit"

\* The reads of the two caches, step by step, against the age of the entry.
C6_Fresh(c, key, ttl) == key \in DOMAIN c /\ now - c[key].timestamp < ttl

C6_Step(i, task, pc) ==
    /\ workers[i].task = task
    /\ workers[i].pc = pc
    /\ workers'[i].pc # pc

C6_BookRead(i) ==
    LET key == StockCacheKey(workers[i].code)
        req == <<"book", workers[i].code>>
    IN  /\ C6_Step(i, "pushOrderBookData", "lookup") =>
              /\ UNCHANGED <<cache, upstream>>
              /\ IF C6_Fresh(cache, key, cacheTTL)
                    THEN pushOrderBookData_Compare(i, cache[key].data)
                    ELSE workers'[i].pc = "fetch"
        /\ C6_Step(i, "pushOrderBookData", "fetch") =>
              /\ UNCHANGED cache
              /\ UpstreamCount(upstream', req) = UpstreamCount(upstream, req) + 1
        /\ C6_Step(i, "pushOrderBookData", "store") =>
              /\ UNCHANGED upstream
              /\ cache' = MapPut(cache, key, CacheEntry(workers[i].data, now))

C6_KLineRead(i) ==
    LET key == KLineKeyOf(workers[i])
        req == <<"kline", key>>
    IN  /\ C6_Step(i, "pushKLineData", "lookup") =>
              /\ UNCHANGED <<klineCache, upstream>>
              /\ IF C6_Fresh(klineCache, key, klineCacheTTL)
                    THEN KLineGot(i, klineCache[key].data)
                    ELSE workers'[i].pc = "fetch"
        /\ C6_Step(i, "pushKLineData", "fetch") =>
              /\ UNCHANGED klineCache
              /\ UpstreamCount(upstream', req) = UpstreamCount(upstream, req) + 1
        /\ C6_Step(i, "pushKLineData", "store") =>
              /\ UNCHANGED upstream
              /\ klineCache' = MapPut(klineCache, key, CacheEntry(workers[i].data, now))

\* C6: in both caches a read of a key whose entry is younger than the TTL
\* continues with the stored payload and changes neither the upstream count
\* nor the cache; any other read goes on to fetch, the fetch is one more
\* upstream call, and what it returned is stored under the key with the
\* time of the store.
C6_CacheTTL == [][\A i \in WorkerIds : C6_BookRead(i) /\ C6_KLineRead(i)]_vars

\* An order-book read found an entry of the TTL's age or older and went
\* on to fetch, after an earlier read had been served from that entry
\* without a fetch.
C6_Witness ==
    \E i, j \in WorkerIds :
       /\ i < j
       /\ workers[i].task = "pushOrderBookData" /\ workers[i].outcome = "emitted"
       /\ workers[j].task = "pushOrderBookData" /\ workers[j].pc = "fetch"
       /\ "sh600000" \in DOMAIN cache
       /\ now - cache["sh600000"].timestamp >= cacheTTL
       /\ UpstreamCount(upstream, <<"book", "sh600000">>) = 1

\* C7 as stated: within the TTL of the first quote read, the upstream serves
\* no second fetch for the same symbol set.
C7_QuoteReadsCached ==
    now < cacheTTL => UpstreamCount(upstream, <<"quotes", <<"sh600000">>>>) <= 1

\* C7, amended: every quote read is an upstream fetch, whatever the time
\* since the last one, and quote reads neither read nor write the
\* quote/order-book cache.
C7_QuoteReadsAlwaysFetch ==
    /\ [](cache = EmptyMap)
    /\ [][\A i \in WorkerIds :
            (workers[i].task = "pushStockData" /\ workers[i].pc = "fetch"
               /\ workers'[i].pc # "fetch")
              => UpstreamCount(upstream', <<"quotes", workers[i].codes>>)
                   = UpstreamCount(upstream, <<"quotes", workers[i].codes>>) + 1]_vars

\* Two quote reads within the TTL were both served by the upstream and both
\* published.
C7_Witness ==
    /\ now < cacheTTL
    /\ UpstreamCount(upstream, <<"quotes", <<"sh600000">>>>) = 2
    /\ Len(Published(EventStockUpdate)) = 2

\* All events published so far.
C8_EventCount ==
    Len(Published(EventStockUpdate)) + Len(Published(EventOrderBookUpdate))
      + Len(Published(EventTelegraphUpdate)) + Len(Published(EventMarketStatusUpdate))
      + Len(Published(EventMarketIndicesUpdate)) + Len(Published(EventKLineUpdate))

\* C8: the step in which a task's fetch fails publishes nothing and changes
\* neither the order-book fingerprint, the candle marker, the last news
\* content nor either cache; a task that failed has published nothing (the
\* events in the sink are exactly those of the workers that ended by
\* publishing).
C8_FetchErrorChangesNothing ==
    /\ [](C8_EventCount = Cardinality({i \in WorkerIds : workers[i].outcome = "emitted"}))
    /\ [][\A i \in WorkerIds :
            (Running(i) /\ workers'[i].outcome = "failed")
              => UNCHANGED <<sink, lastOrderBookHash, lastKLineTime, lastTelegraphContent,
                             cache, klineCache>>]_vars

\* An order-book fetch failed; the order-book task of a later tick fetched
\* again, nothing having been cached or published or recorded meanwhile.
C8_Witness ==
    \E i, j \in WorkerIds :
       /\ i < j
       /\ workers[i].task = "pushOrderBookData" /\ workers[i].outcome = "failed"
       /\ workers[j].task = "pushOrderBookData" /\ workers[j].pc = "store"
       /\ UpstreamCount(upstream, <<"book", "sh600000">>) = 2
       /\ cache = EmptyMap
       /\ lastOrderBookHash = orderBookHash(BookA)
       /\ Published(EventOrderBookUpdate) = <<>>

-----------------------------------------------------------------------------
(* Start and Stop called in any order, Stop up to MaxCalls times.  The     *)
(* workers of the immediate push take no step here: the loop leaves its    *)
(* wait by the timeout.                                                    *)

InitStop == ConstructedWith([Limit(6, 0, 0) EXCEPT !.calls = MaxCalls])

NextStop ==
    \/ Start_Check
    \/ Start_setupEventListeners
    \/ Start_initSubscriptions
    \/ Start_go
    \/ Stop
    \/ pushLoop_Begin
    \/ runParallel_Timeout
    \/ pushLoop_Stop
    \/ \E c \in Codes : EmitRequest(EventOrderBookSubscribe, <<c>>)
    \/ OnOrderBookSubscribe
    \/ DropRequest

SpecStop == InitStop /\ [][NextStop]_vars

C11_StopStep == stopCalls' = stopCalls + 1

\* C11: of any number of Stop calls, interleaved in any way with Start and
\* the loop, the call that finds the scheduler not stopped sets stopped,
\* closes the open stop channel and removes the three listeners; every
\* later call changes nothing, and no call closes the channel twice (which
\* would panic).
C11_StopOnce ==
    [][C11_StopStep =>
         IF stopped
           THEN UNCHANGED <<now, pusherVars, ctrlVars, workers, crashed, cacheVars,
                            listeners, inbox, sink, marketPhase, upstream,
                            klineRecorded, limit, mu, updateCodes, opLog,
                   calendarVars, args>>
           ELSE /\ stopChan = "open"
                /\ stopped' /\ stopChan' = "closed" /\ ~crashed'
                /\ listeners' = listeners \ SubscribeEvents]_vars

\* Stop has been called MaxCalls times, once before Start had registered
\* the listeners, and nothing panicked.
C11_Witness ==
    /\ stopCalls = MaxCalls
    /\ stopped /\ stopChan = "closed" /\ ~crashed
    /\ startPc = "returned"

-----------------------------------------------------------------------------
(* The watchlist registry: p.subscribedCodes under p.mu *)

\* A value of Go's type any, as the event system delivers it.
AnyValue(type, value) == [type |-> type, value |-> value]
Str(s) == AnyValue("string", s)
NotAString == AnyValue("float64", "1")

\* Arguments of a "set watchlist" request: a list that may repeat a symbol
\* or carry an element that is not a string, no argument at all, or an
\* argument that is not a list.
SymbolLists ==
    {<<>>, <<Str("sh600000")>>, <<Str("sz000001"), Str("sh600000")>>,
     <<Str("sh600000"), Str("sh600000")>>, <<NotAString, Str("sz000001")>>}
MarketRequests ==
    {<<>>, <<Str("sh600000")>>} \cup {<<AnyValue("[]any", l)>> : l \in SymbolLists}

\* Listener of EventMarketSubscribe: with a list as first argument,
\* updateSubscriptions takes p.mu and replaces the watchlist by an empty one.
OnMarketSubscribe ==
    /\ ~crashed
    /\ inbox.name = EventMarketSubscribe
    /\ EventMarketSubscribe \in listeners
    /\ IF Len(inbox.data) > 0 /\ inbox.data[1].type = "[]any"
         THEN /\ mu = "free"
              /\ mu' = "updateSubscriptions"
              /\ updateCodes' = inbox.data[1].value
              /\ subscribedCodes' = <<>>
         ELSE UNCHANGED <<mu, updateCodes, subscribedCodes>>
    /\ inbox' = NoReq
    /\ UNCHANGED <<now, currentOrderBook, klineSub, lastKLineTime, lastTelegraphContent,
                   lastOrderBookHash, lastMarketStatus, lastMarketStatusTime, ctrlVars,
                   workers, crashed, cacheVars, listeners, sink, marketPhase, upstream,
                   klineRecorded, limit, stopCalls, opLog, calendarVars, args>>

\* updateSubscriptions, one turn of its loop: a string is appended, anything
\* else is skipped.
updateSubscriptions_Append ==
    /\ ~crashed
    /\ mu = "updateSubscriptions"
    /\ updateCodes # <<>>
    /\ subscribedCodes' = IF Head(updateCodes).type = "string"
                            THEN Append(subscribedCodes, Head(updateCodes).value)
                            ELSE subscribedCodes
    /\ updateCodes' = Tail(updateCodes)
    /\ UNCHANGED <<now, currentOrderBook, klineSub, lastKLineTime, lastTelegraphContent,
                   lastOrderBookHash, lastMarketStatus, lastMarketStatusTime, ctrlVars,
                   workers, crashed, cacheVars, listeners, inbox, sink, marketPhase,
                   upstream, klineRecorded, limit, stopCalls, mu, opLog, calendarVars, args>>

\* updateSubscriptions returns: the deferred p.mu.Unlock.
updateSubscriptions_Return ==
    /\ ~crashed
    /\ mu = "updateSubscriptions"
    /\ updateCodes = <<>>
    /\ mu' = "free"
    /\ UNCHANGED <<now, pusherVars, ctrlVars, workers, crashed, cacheVars, listeners,
                   inbox, sink, marketPhase, upstream, klineRecorded, limit, stopCalls,
                   updateCodes, opLog, calendarVars, args>>

Contains(seq, x) == \E i \in 1..Len(seq) : seq[i] = x

\* History record of a call: had tells whether the watchlist held the symbol
\* when the call took p.mu.
Call(op, code) == [op |-> op, code |-> code, had |-> Contains(subscribedCodes, code)]

\* An AddSubscription that appends without looking.
AddSubscriptionAlways(code) ==
    /\ ~crashed
    /\ mu = "free"
    /\ Len(opLog) < limit.calls
    /\ opLog' = Append(opLog, Call("AddSubscription", code))
    /\ subscribedCodes' = Append(subscribedCodes, code)
    /\ UNCHANGED <<now, currentOrderBook, klineSub, lastKLineTime, lastTelegraphContent,
                   lastOrderBookHash, lastMarketStatus, lastMarketStatusTime, ctrlVars,
                   workers, crashed, cacheVars, listeners, inbox, sink, marketPhase,
                   upstream, klineRecorded, limit, stopCalls, mu, updateCodes, calendarVars, args>>

\* AddSubscription, under p.mu: append unless slices.Contains.
AddSubscription(code) ==
    /\ ~crashed
    /\ mu = "free"
    /\ Len(opLog) < limit.calls
    /\ opLog' = Append(opLog, Call("AddSubscription", code))
    /\ subscribedCodes' = IF ~Contains(subscribedCodes, code)
                            THEN Append(subscribedCodes, code)
                            ELSE subscribedCodes
    /\ UNCHANGED <<now, currentOrderBook, klineSub, lastKLineTime, lastTelegraphContent,
                   lastOrderBookHash, lastMarketStatus, lastMarketStatusTime, ctrlVars,
                   workers, crashed, cacheVars, listeners, inbox, sink, marketPhase,
                   upstream, klineRecorded, limit, stopCalls, mu, updateCodes, calendarVars, args>>

\* append(s[:i], s[i+1:]...)
RemoveAt(seq, i) == SubSeq(seq, 1, i - 1) \o SubSeq(seq, i + 1, Len(seq))

\* RemoveSubscription, under p.mu: the first element equal to code is cut
\* out; the loop returns there.
RemoveSubscription(code) ==
    /\ ~crashed
    /\ mu = "free"
    /\ Len(opLog) < limit.calls
    /\ opLog' = Append(opLog, Call("RemoveSubscription", code))
    /\ subscribedCodes' =
          IF Contains(subscribedCodes, code)
            THEN LET i == CHOOSE k \in 1..Len(subscribedCodes) :
                             /\ subscribedCodes[k] = code
                             /\ \A j \in 1..(k - 1) : subscribedCodes[j] # code
                 IN  RemoveAt(subscribedCodes, i)
            ELSE subscribedCodes
    /\ UNCHANGED <<now, currentOrderBook, klineSub, lastKLineTime, lastTelegraphContent,
                   lastOrderBookHash, lastMarketStatus, lastMarketStatusTime, ctrlVars,
                   workers, crashed, cacheVars, listeners, inbox, sink, marketPhase,
                   upstream, klineRecorded, limit, stopCalls, mu, updateCodes, calendarVars, args>>

\* A caller enters GetSubscribedStocks.
GetSubscribedStocks_Call ==
    /\ ~crashed
    /\ Spawn(<<"GetSubscribedStocks">>, FALSE)
    /\ UNCHANGED <<WorkerFrame, pusherVars, cacheVars, sink, upstream, klineRecorded>>

\* GetSubscribedStocks: the copy of the watchlist under p.mu.RLock; an empty
\* copy is answered with an empty list.
GetSubscribedStocks_Read(i) ==
    /\ At(i, "GetSubscribedStocks", "start")
    /\ mu = "free"
    /\ IF Len(subscribedCodes) = 0
         THEN Return(i, "empty")
         ELSE SetWorker(i, [workers[i] EXCEPT !.pc = "fetch", !.codes = subscribedCodes])
    /\ UNCHANGED <<WorkerFrame, pusherVars, cacheVars, sink, upstream, klineRecorded>>

\* stocks, _ := GetStockRealTimeData(codes...); return stocks
GetSubscribedStocks_Fetch(i) ==
    /\ At(i, "GetSubscribedStocks", "fetch")
    /\ UpstreamServe(<<"quotes", workers[i].codes>>)
    /\ \E r \in {Err, Ok(StocksOf(workers[i].codes))} :
          Return(i, IF r.err THEN "failed" ELSE "returned")
    /\ UNCHANGED <<WorkerFrame, pusherVars, cacheVars, sink, klineRecorded>>

\* The registry in service, its writers called up to MaxCalls times.
InitRegistry ==
    /\ InServiceWith([Limit(0, 0, 0) EXCEPT !.calls = MaxCalls])
    /\ marketPhase = "trading"
    /\ lastMarketStatus = "trading"
    /\ subscribedCodes \in Watchlists
    /\ currentOrderBook = IF Len(subscribedCodes) > 0 THEN subscribedCodes[1] ELSE ""
    /\ lastOrderBookHash = NoHash
    /\ klineSub = NoSubscription
    /\ lastKLineTime = 0
    /\ klineRecorded = FALSE

NextRegistry ==
    \/ \E d \in MarketRequests : EmitRequest(EventMarketSubscribe, d)
    \/ OnMarketSubscribe
    \/ updateSubscriptions_Append
    \/ updateSubscriptions_Return
    \/ \E c \in Codes : AddSubscription(c)
    \/ \E c \in Codes : RemoveSubscription(c)
    \/ \E c \in Codes : EmitRequest(EventOrderBookSubscribe, <<c>>)
    \/ OnOrderBookSubscribe

SpecRegistry == InitRegistry /\ [][NextRegistry]_vars

NoDuplicates(seq) == \A i, j \in 1..Len(seq) : i # j => seq[i] # seq[j]

\* C12: whenever no writer is at work, the watchlist holds no symbol twice:
\* after the initial load and after any "set watchlist" request,
\* AddSubscription or RemoveSubscription.
C12_WatchlistHasNoDuplicates == mu = "free" => NoDuplicates(subscribedCodes)

C13_Call(op, code) ==
    /\ Len(opLog') = Len(opLog) + 1
    /\ opLog'[Len(opLog')].op = op
    /\ opLog'[Len(opLog')].code = code

\* C13: AddSubscription of a symbol already in the watchlist and
\* RemoveSubscription of a symbol not in it leave the watchlist as it was; an
\* added symbol is in the watchlist afterwards, appended when it was absent;
\* neither call touches the focus symbol or the candle subscription.
C13_AddRemoveIdempotent ==
    [][\A c \in Codes :
         /\ C13_Call("AddSubscription", c) =>
               /\ Contains(subscribedCodes, c) => subscribedCodes' = subscribedCodes
               /\ ~Contains(subscribedCodes, c) =>
                     subscribedCodes' = Append(subscribedCodes, c)
               /\ UNCHANGED <<currentOrderBook, klineSub, lastKLineTime>>
         /\ C13_Call("RemoveSubscription", c) =>
               /\ ~Contains(subscribedCodes, c) => subscribedCodes' = subscribedCodes
               /\ ~Contains(subscribedCodes', c) \/ ~NoDuplicates(subscribedCodes)
               /\ UNCHANGED <<currentOrderBook, klineSub, lastKLineTime>>]_vars

\* A symbol was added, added again while in the watchlist, and is there
\* once; then a symbol that was not in the watchlist was removed; a focus
\* symbol is set.
C13_Witness ==
    /\ opLog = <<[op |-> "AddSubscription", code |-> "sz000001", had |-> FALSE],
                 [op |-> "AddSubscription", code |-> "sz000001", had |-> TRUE],
                 [op |-> "RemoveSubscription", code |-> "sh600000", had |-> FALSE]>>
    /\ subscribedCodes = <<"sz000001">>
    /\ currentOrderBook = "sh600000"

-----------------------------------------------------------------------------
(* Readers of the watchlist next to its writers: the quote task of a       *)
(* normal tick and a caller of GetSubscribedStocks.  The sibling workers   *)
(* of the dispatch take no step here.                                      *)

InitReaders ==
    /\ InService(MaxSpawn + 2, 1, 0)
    /\ marketPhase = "trading"
    /\ lastMarketStatus = "trading"
    /\ subscribedCodes = <<"sh600000", "sz000001">>
    /\ currentOrderBook = "sh600000"
    /\ lastOrderBookHash = NoHash
    /\ klineSub = NoSubscription
    /\ lastKLineTime = 0
    /\ klineRecorded = FALSE

\* The one "set watchlist" request of this specification.
ReversedList == <<Str("sz000001"), Str("sh600000")>>

NextReaders ==
    \/ TickerFire("normal")
    \/ pushLoop_Normal
    \/ runParallel_Timeout
    \/ \E i \in WorkerIds : pushStockData_Read(i)
    \/ \E i \in WorkerIds : GetStockRealTimeData(i)
    \/ \E i \in WorkerIds : pushStockData_Emit(i)
    \/ GetSubscribedStocks_Call
    \/ \E i \in WorkerIds : GetSubscribedStocks_Read(i)
    \/ \E i \in WorkerIds : GetSubscribedStocks_Fetch(i)
    \/ EmitRequest(EventMarketSubscribe, <<AnyValue("[]any", ReversedList)>>)
    \/ OnMarketSubscribe
    \/ updateSubscriptions_Append
    \/ updateSubscriptions_Return
    \/ \E c \in Codes : AddSubscription(c)
    \/ \E c \in Codes : RemoveSubscription(c)

SpecReaders == InitReaders /\ [][NextReaders]_vars

C14_Readers == {i \in WorkerIds : workers[i].task \in {"pushStockData", "GetSubscribedStocks"}}

\* The upstream serves exactly one more fetch, the one of `req`.
C14_Served(req) ==
    /\ UpstreamCount(upstream', req) = UpstreamCount(upstream, req) + 1
    /\ \A k \in DOMAIN upstream' \ {req} :
          UpstreamCount(upstream', k) = UpstreamCount(upstream, k)

\* C14: a reader of the watchlist takes its copy while no writer holds the
\* registry lock, so the copy is a whole watchlist, never one under
\* construction; no step of anybody else changes the copy afterwards; and
\* the list passed to the upstream fetch is that copy, whatever the
\* registry holds by then.
C14_ReadersUsePrivateCopy ==
    [][\A i \in C14_Readers :
         /\ (workers[i].pc = "start" /\ workers'[i].pc = "fetch") =>
               mu = "free" /\ workers'[i].codes = subscribedCodes
         /\ (workers[i].pc = "fetch" /\ workers'[i].pc = "fetch") =>
               workers'[i].codes = workers[i].codes
         /\ (workers[i].pc = "fetch" /\ workers'[i].pc # "fetch") =>
               C14_Served(<<"quotes", workers[i].codes>>)]_vars

\* A quote task holds its copy of the two-symbol watchlist and has still to
\* fetch, while a "set watchlist" request has emptied the registry and is
\* filling it; a caller of GetSubscribedStocks has been served its own copy.
C14_Witness ==
    \E i, j \in WorkerIds :
       /\ workers[i].task = "pushStockData" /\ workers[i].pc = "fetch"
       /\ workers[i].codes = <<"sh600000", "sz000001">>
       /\ mu = "updateSubscriptions"
       /\ subscribedCodes = <<"sz000001">>
       /\ workers[j].task = "GetSubscribedStocks" /\ workers[j].outcome = "returned"
       /\ upstream = MapPut(EmptyMap, <<"quotes", <<"sh600000", "sz000001">>>>, 1)

-----------------------------------------------------------------------------
(* The trading calendar of MarketService.  Dates are days counted from     *)
(* Monday 2025-12-29; the clock is the civil clock of UTC+8.               *)

Days == 0..MaxDay

\* date.Format("2006-01-02")
DateStr ==
    <<"2025-12-29", "2025-12-30", "2025-12-31", "2026-01-01", "2026-01-02",
      "2026-01-03", "2026-01-04", "2026-01-05", "2026-01-06", "2026-01-07">>
Format(d) == DateStr[d + 1]

\* date.Weekday(): Sunday is 0, Saturday is 6
Weekday(d) == (d + 1) % 7
IsWeekend(d) == Weekday(d) \in {0, 6}

\* date.Year()
Year(d) == IF d <= 2 THEN 2025 ELSE 2026
Years == {Year(d) : d \in Days}

\* The remote holiday dataset: per year, the days it lists.  2026-01-01 to
\* 2026-01-03 are the New Year holiday, Sunday 2026-01-04 is its make-up
\* workday; 2025-12-30, a Tuesday, is listed as a working day.
holidayDay(name, d, isOffDay) == [Name |-> name, Date |-> Format(d), IsOffDay |-> isOffDay]
HolidayCN(year) ==
    IF year = 2025
      THEN <<holidayDay("year end", 1, FALSE)>>
      ELSE <<holidayDay("New Year", 3, TRUE), holidayDay("New Year", 4, TRUE),
             holidayDay("New Year", 5, TRUE), holidayDay("New Year", 6, FALSE)>>

\* parseHolidayData: date -> isOffDay, a later entry replacing an earlier one
parseHolidayData(hd) ==
    [date \in {hd[i].Date : i \in 1..Len(hd)} |->
       LET last == CHOOSE i \in 1..Len(hd) :
                      /\ hd[i].Date = date
                      /\ \A j \in (i + 1)..Len(hd) : hd[j].Date # date
       IN  hd[last].IsOffDay]

\* What a load returns and leaves behind: the table or an error, the tables
\* in memory, the cache files, and whether the cache file was read and the
\* remote dataset asked.
LoadResult(data, err, mem, files, read, fetched) ==
    [data |-> data, err |-> err, mem |-> mem, files |-> files, read |-> read,
     fetched |-> fetched]

\* A cache file whose bytes json.Unmarshal rejects, and the test for it.
UnparsableFile == <<[Name |-> "", Date |-> "", IsOffDay |-> FALSE]>>
Parsable(file) == \A i \in 1..Len(file) : file[i].Date # ""

\* fetchHolidayData: cdn says whether the download and its decoding succeed,
\* write whether os.WriteFile does (its error is not looked at).
fetchHolidayData(mem, files, year, cdn, write) ==
    IF ~cdn
      THEN LoadResult(EmptyMap, TRUE, mem, files, FALSE, TRUE)
      ELSE LET hd == HolidayCN(year)
               data == parseHolidayData(hd)
           IN  LoadResult(data, FALSE, MapPut(mem, year, data),
                          IF write THEN MapPut(files, year, hd) ELSE files, FALSE, TRUE)

\* A load that does not keep the table of a cache file in memory.
loadHolidayDataForgets(mem, files, year, cdn, write) ==
    IF year \in DOMAIN mem
      THEN LoadResult(mem[year], FALSE, mem, files, FALSE, FALSE)
      ELSE IF year \in DOMAIN files /\ Parsable(files[year])
             THEN LoadResult(parseHolidayData(files[year]), FALSE, mem, files, TRUE, FALSE)
             ELSE [fetchHolidayData(mem, files, year, cdn, write) EXCEPT !.read = TRUE]

\* loadHolidayData: memory, then the cache file, then the remote dataset
loadHolidayData(mem, files, year, cdn, write) ==
    IF year \in DOMAIN mem
      THEN LoadResult(mem[year], FALSE, mem, files, FALSE, FALSE)
      ELSE IF year \in DOMAIN files /\ Parsable(files[year])
             THEN LET data == parseHolidayData(files[year])
                  IN  LoadResult(data, FALSE, MapPut(mem, year, data), files, TRUE, FALSE)
             ELSE [fetchHolidayData(mem, files, year, cdn, write) EXCEPT !.read = TRUE]

\* getHolidayNote: the name is read from the cache file, "" without one
getHolidayNote(files, year, dateStr) ==
    IF year \notin DOMAIN files
      THEN ""
      ELSE LET hd == files[year]
               found == {i \in 1..Len(hd) : hd[i].Date = dateStr}
           IN  IF found = {} THEN ""
               ELSE hd[CHOOSE i \in found : \A j \in found : i <= j].Name

\* getHolidayStatus: a failed load is logged and answered as "not listed"
getHolidayStatus(mem, files, d, cdn, write) ==
    LET l == loadHolidayData(mem, files, Year(d), cdn, write)
        out(isOffDay, inList, note) ==
            [isOffDay |-> isOffDay, inList |-> inList, note |-> note, loadErr |-> l.err,
             mem |-> l.mem, files |-> l.files, fetched |-> l.fetched]
    IN  IF l.err
          THEN out(FALSE, FALSE, "")
          ELSE IF Format(d) \in DOMAIN l.data
                 THEN out(l.data[Format(d)], TRUE,
                          getHolidayNote(l.files, Year(d), Format(d)))
                 ELSE out(FALSE, FALSE, "")

\* An isTradeDay that asks the holiday table on every day of the week.
isTradeDayByTable(mem, files, d, cdn, write) ==
    LET h == getHolidayStatus(mem, files, d, cdn, write)
    IN  [ok |-> ~(h.inList /\ h.isOffDay), name |-> IF h.inList /\ h.isOffDay THEN h.note ELSE "",
         err |-> FALSE, loadErr |-> h.loadErr, mem |-> h.mem, files |-> h.files,
         fetched |-> h.fetched]

\* An isTradeDay that hands the error of the load to its caller.
isTradeDaySurfacesError(mem, files, d, cdn, write) ==
    LET out(ok, name, err, h) ==
            [ok |-> ok, name |-> name, err |-> err, loadErr |-> h.loadErr, mem |-> h.mem,
             files |-> h.files, fetched |-> h.fetched]
    IN  IF IsWeekend(d)
          THEN out(FALSE, "weekend", FALSE,
                   [loadErr |-> FALSE, mem |-> mem, files |-> files, fetched |-> FALSE])
          ELSE LET h == getHolidayStatus(mem, files, d, cdn, write)
               IN  IF h.loadErr THEN out(FALSE, "", TRUE, h)
                   ELSE IF h.inList /\ h.isOffDay
                          THEN out(FALSE, h.note, FALSE, h)
                          ELSE out(TRUE, "", FALSE, h)

\* isTradeDay: (isTradeDay, holidayName), with what the load left behind.
\* The function has no error result: err, what its caller is told of a
\* failure, is always false; loadErr is the error getHolidayStatus logged.
isTradeDay(mem, files, d, cdn, write) ==
    LET out(ok, name, h) ==
            [ok |-> ok, name |-> name, err |-> FALSE, loadErr |-> h.loadErr,
             mem |-> h.mem, files |-> h.files, fetched |-> h.fetched]
    IN  IF IsWeekend(d)
          THEN out(FALSE, "weekend",
                   [loadErr |-> FALSE, mem |-> mem, files |-> files, fetched |-> FALSE])
          ELSE LET h == getHolidayStatus(mem, files, d, cdn, write)
               IN  IF h.inList /\ h.isOffDay
                     THEN out(FALSE, h.note, h)
                     ELSE out(TRUE, "", h)

\* The switch with a status of its own for the call auction.
SessionStatusAuctionPhase(currentMinutes) ==
    CASE currentMinutes < 9 * 60 + 15 ->
           [Status |-> "pre_market", StatusText |-> <<"pre-open">>]
      [] currentMinutes < 9 * 60 + 30 ->
           [Status |-> "pre_market_auction", StatusText |-> <<"call auction">>]
      [] currentMinutes < 11 * 60 + 30 ->
           [Status |-> "trading", StatusText |-> <<"trading">>]
      [] currentMinutes < 13 * 60 ->
           [Status |-> "lunch_break", StatusText |-> <<"lunch break">>]
      [] currentMinutes < 15 * 60 ->
           [Status |-> "trading", StatusText |-> <<"trading">>]
      [] OTHER ->
           [Status |-> "closed", StatusText |-> <<"closed for the day">>]

\* The switch with 11:30 itself still counted as trading.
SessionStatusLateLunch(currentMinutes) ==
    CASE currentMinutes < 9 * 60 + 15 ->
           [Status |-> "pre_market", StatusText |-> <<"pre-open">>]
      [] currentMinutes < 9 * 60 + 30 ->
           [Status |-> "pre_market", StatusText |-> <<"call auction">>]
      [] currentMinutes <= 11 * 60 + 30 ->
           [Status |-> "trading", StatusText |-> <<"trading">>]
      [] currentMinutes < 13 * 60 ->
           [Status |-> "lunch_break", StatusText |-> <<"lunch break">>]
      [] currentMinutes < 15 * 60 ->
           [Status |-> "trading", StatusText |-> <<"trading">>]
      [] OTHER ->
           [Status |-> "closed", StatusText |-> <<"closed for the day">>]

\* The switch of GetMarketStatus on hour*60 + minute.  StatusText stands for
\* the five Chinese labels of the source, in English.
SessionStatus(currentMinutes) ==
    CASE currentMinutes < 9 * 60 + 15 ->
           [Status |-> "pre_market", StatusText |-> <<"pre-open">>]
      [] currentMinutes < 9 * 60 + 30 ->
           [Status |-> "pre_market", StatusText |-> <<"call auction">>]
      [] currentMinutes < 11 * 60 + 30 ->
           [Status |-> "trading", StatusText |-> <<"trading">>]
      [] currentMinutes < 13 * 60 ->
           [Status |-> "lunch_break", StatusText |-> <<"lunch break">>]
      [] currentMinutes < 15 * 60 ->
           [Status |-> "trading", StatusText |-> <<"trading">>]
      [] OTHER ->
           [Status |-> "closed", StatusText |-> <<"closed for the day">>]

PusherAtRest ==
    <<now, pusherVars, ctrlVars, workers, crashed, cacheVars, listeners, inbox, sink,
      marketPhase, upstream, klineRecorded, limit, stopCalls, mu, updateCodes, opLog, args>>

\* GetMarketStatus at the present clock: "closed" on a day that is not a
\* trading day, else the status of the minute of the day.
GetMarketStatus ==
    \E cdn, write \in BOOLEAN :
       LET t == isTradeDay(holidayCacheData, holidayFiles, clock.day, cdn, write)
           closedText == IF t.name # "" THEN <<t.name, "closed">>
                         ELSE IF IsWeekend(clock.day) THEN <<"weekend", "closed">>
                         ELSE <<"closed">>
           result == IF ~t.ok
                       THEN [Status |-> "closed", StatusText |-> closedText,
                             IsTradeDay |-> FALSE, HolidayName |-> t.name]
                       ELSE [Status |-> SessionStatus(clock.minute).Status,
                             StatusText |-> SessionStatus(clock.minute).StatusText,
                             IsTradeDay |-> TRUE, HolidayName |-> ""]
       IN  /\ answer' = [call |-> "GetMarketStatus", result |-> result]
           /\ holidayCacheData' = t.mem
           /\ holidayFiles' = t.files
           /\ UNCHANGED <<PusherAtRest, clock, tradeDatesFile>>

\* Every holiday cache file of an earlier run.
AllHolidayFiles == [year \in Years |-> HolidayCN(year)]

\* Session phases: the clock stands at any minute of any day; the holiday
\* tables are loaded from the cache files of an earlier run.
InitPhase ==
    /\ PusherConstructed(Limit(0, 0, 0))
    /\ marketPhase = "closed"
    /\ clock \in [day : Days, minute : 0..1439]
    /\ holidayCacheData = EmptyMap
    /\ holidayFiles = AllHolidayFiles
    /\ tradeDatesFile = [exists |-> FALSE, TradeDates |-> <<>>, UpdatedAt |-> 0]
    /\ answer = [call |-> "none"]
    /\ args = NoArgs

NextPhase == GetMarketStatus

SpecPhase == InitPhase /\ [][NextPhase]_vars

C15_Minute(h, m) == h * 60 + m

\* What the claim lets a phase be at minute m of a trading day.
C15_Allowed(m) ==
    IF m < C15_Minute(9, 30) THEN {"pre_market", "pre_market_auction"}
    ELSE IF m < C15_Minute(11, 30) THEN {"trading"}
    ELSE IF m < C15_Minute(13, 0) THEN {"lunch_break"}
    ELSE IF m < C15_Minute(15, 0) THEN {"trading"}
    ELSE {"closed"}

\* C15: the status GetMarketStatus answers is a function of the trade-day
\* flag and the minute of the day in UTC+8: closed on a day that is not a
\* trading day; on a trading day a pre-market phase before 9:30, trading in
\* [9:30, 11:30) and [13:00, 15:00), lunch_break in [11:30, 13:00), closed
\* from 15:00; every minute 0..1439 gets one of these.
C15_PhaseOfMinute ==
    answer.call = "GetMarketStatus" =>
       IF answer.result.IsTradeDay
         THEN answer.result.Status \in C15_Allowed(clock.minute)
         ELSE answer.result.Status = "closed"

\* The last minute of the afternoon session of a trading day was classified.
C15_Witness ==
    /\ answer.call = "GetMarketStatus"
    /\ clock.minute = C15_Minute(14, 59)
    /\ answer.result.IsTradeDay
    /\ answer.result.Status = "trading"

\* C16 as stated: on a trading day the minutes from 9:15 to 9:29 get the
\* phase pre_market_auction, distinct from the pre_market of the minutes
\* before 9:15.
C16_AuctionIsItsOwnPhase ==
    (/\ answer.call = "GetMarketStatus"
     /\ answer.result.IsTradeDay
     /\ clock.minute >= C15_Minute(9, 15)
     /\ clock.minute < C15_Minute(9, 30))
       => answer.result.Status = "pre_market_auction"

\* C16, amended: the status is one of pre_market, trading, lunch_break and
\* closed; on a trading day every minute before 9:30 gets pre_market, the
\* minutes from 9:15 on told apart from the earlier ones by the status text
\* only.
C16_AuctionIsPreMarket ==
    answer.call = "GetMarketStatus" =>
       /\ answer.result.Status \in Phases
       /\ (answer.result.IsTradeDay /\ clock.minute < C15_Minute(9, 30)) =>
             /\ answer.result.Status = "pre_market"
             /\ answer.result.StatusText =
                   IF clock.minute < C15_Minute(9, 15) THEN <<"pre-open">>
                                                       ELSE <<"call auction">>

\* 9:15 of a trading day was classified pre_market, with the auction's text.
C16_Witness ==
    /\ answer.call = "GetMarketStatus"
    /\ clock.minute = C15_Minute(9, 15)
    /\ answer.result.IsTradeDay
    /\ answer.result.Status = "pre_market"
    /\ answer.result.StatusText = <<"call auction">>

-----------------------------------------------------------------------------
(* Trading-day resolution: isTradeDay on any date, the holiday tables in   *)
(* memory, in the cache files or nowhere, the remote dataset reachable or  *)
(* not.                                                                    *)

\* A caller asks isTradeDay about day d.  before tells where the year's
\* table was when the call began.
isTradeDay_Call(d) ==
    \E cdn, write \in BOOLEAN :
       LET t == isTradeDay(holidayCacheData, holidayFiles, d, cdn, write)
       IN  /\ answer' = [call |-> "isTradeDay", date |-> d, ok |-> t.ok, name |-> t.name,
                         err |-> t.err, loadErr |-> t.loadErr, fetched |-> t.fetched,
                         before |-> [mem |-> Year(d) \in DOMAIN holidayCacheData,
                                     file |-> Year(d) \in DOMAIN holidayFiles]]
           /\ holidayCacheData' = t.mem
           /\ holidayFiles' = t.files
           /\ UNCHANGED <<PusherAtRest, clock, tradeDatesFile>>

\* The process is started anew: holidayCacheData is empty again, the cache
\* files stay.
ProcessRestart ==
    /\ holidayCacheData # EmptyMap
    /\ holidayCacheData' = EmptyMap
    /\ UNCHANGED <<PusherAtRest, clock, holidayFiles, tradeDatesFile, answer>>

InitHoliday ==
    /\ PusherConstructed(Limit(0, 0, 0))
    /\ marketPhase = "closed"
    /\ CalendarAtRest

NextHoliday ==
    \/ \E d \in Days : isTradeDay_Call(d)
    \/ ProcessRestart

SpecHoliday == InitHoliday /\ [][NextHoliday]_vars

\* C17: isTradeDay answers "not a trading day" for every Saturday and
\* Sunday, whatever the holiday table lists for the date and wherever the
\* table is, and takes that decision without loading anything: no table is
\* put in memory, no file written, the remote dataset not asked.
C17_WeekendNeverTrades ==
    /\ []((answer.call = "isTradeDay" /\ IsWeekend(answer.date))
             => (~answer.ok /\ ~answer.fetched /\ ~answer.loadErr))
    /\ [][(answer'.call = "isTradeDay" /\ IsWeekend(answer'.date) /\ answer' # answer)
             => UNCHANGED <<holidayCacheData, holidayFiles>>]_vars

\* Sunday 2026-01-04 was answered "not a trading day" while the table in
\* memory lists it as a working day.
C17_Witness ==
    /\ answer.call = "isTradeDay" /\ answer.date = 6 /\ ~answer.ok
    /\ Year(6) \in DOMAIN holidayCacheData
    /\ Format(6) \in DOMAIN holidayCacheData[Year(6)]
    /\ ~holidayCacheData[Year(6)][Format(6)]

\* The name the dataset gives day d, "" when it does not list it.
C18_DatasetName(d) ==
    LET hd == HolidayCN(Year(d))
        found == {i \in 1..Len(hd) : hd[i].Date = Format(d)}
    IN  IF found = {} THEN "" ELSE hd[CHOOSE i \in found : TRUE].Name

C18_DatasetOff(d) ==
    \E i \in 1..Len(HolidayCN(Year(d))) :
       HolidayCN(Year(d))[i].Date = Format(d) /\ HolidayCN(Year(d))[i].IsOffDay

\* C18: for a weekday whose year table could be loaded, isTradeDay answers
\* "not a trading day" exactly when the table lists the date as a day off,
\* and then with the name the dataset gives the date; otherwise it answers
\* "trading day" with an empty name.
C18_HolidayByTable ==
    (answer.call = "isTradeDay" /\ ~IsWeekend(answer.date) /\ ~answer.loadErr)
       => /\ answer.ok = ~C18_DatasetOff(answer.date)
          /\ answer.name = IF C18_DatasetOff(answer.date)
                              THEN C18_DatasetName(answer.date) ELSE ""

\* C19 as stated: when the table is neither in memory nor in a readable
\* file and the remote fetch fails, the caller of isTradeDay gets an error;
\* in every other case it gets no error.
C19_UnavailableIsAnError ==
    answer.call = "isTradeDay" => (answer.err <=> answer.loadErr)

\* C19, amended: isTradeDay never hands its caller an error.  When the table
\* is neither in memory nor in a readable file and the remote fetch fails,
\* the failure is logged and a weekday is answered "trading day" with an
\* empty name; nothing is put in memory or written to a file.
C19_UnavailableIsTradingDay ==
    /\ [](answer.call = "isTradeDay" =>
            /\ ~answer.err
            /\ answer.loadErr =>
                  /\ ~answer.before.mem /\ ~answer.before.file /\ answer.fetched
                  /\ ~IsWeekend(answer.date)
                  /\ answer.ok /\ answer.name = ""
                  /\ Year(answer.date) \notin DOMAIN holidayCacheData
                  /\ Year(answer.date) \notin DOMAIN holidayFiles)
    /\ [][(answer'.call = "isTradeDay" /\ answer'.loadErr /\ answer' # answer)
             => UNCHANGED <<holidayCacheData, holidayFiles>>]_vars

\* New Year's Day 2026, a Thursday and a holiday in the dataset, was
\* answered "trading day" because the table could not be had.
C19_Witness ==
    /\ answer.call = "isTradeDay" /\ answer.date = 3
    /\ answer.loadErr /\ answer.fetched
    /\ answer.ok /\ answer.name = ""
    /\ C18_DatasetOff(3)

-----------------------------------------------------------------------------
(* The rolling window of trading dates: GetTradeDates, trade_dates.json    *)
(* and the passing of days.                                                *)

\* time.Time as minutes since the first midnight of the calendar
Stamp(c) == c.day * 24 * 60 + c.minute

\* 24*time.Hour, in minutes
tradeDatesTTL == 24 * 60

\* filterTradeDates
filterTradeDates(dates, days) ==
    IF Len(dates) <= days THEN dates ELSE SubSeq(dates, 1, days)

\* The loop of fetchTradeDates from day d back to the oldest day it reaches:
\* the dates isTradeDate accepts, the most recent first.
RECURSIVE TradeDatesFrom(_, _, _, _, _, _)
TradeDatesFrom(mem, files, d, oldest, cdn, write) ==
    IF d < oldest
      THEN <<>>
      ELSE (IF isTradeDay(mem, files, d, cdn, write).ok THEN <<Format(d)>> ELSE <<>>)
             \o TradeDatesFrom(mem, files, d - 1, oldest, cdn, write)

\* The years of the window are loaded one after the other.
RECURSIVE Preload(_, _, _, _, _)
Preload(mem, files, years, cdn, write) ==
    IF years = {}
      THEN [mem |-> mem, files |-> files]
      ELSE LET year == CHOOSE y \in years : TRUE
               l == loadHolidayData(mem, files, year, cdn, write)
           IN  Preload(l.mem, l.files, years \ {year}, cdn, write)

\* fetchTradeDates(window) on day today.  Days before day 0 are outside the
\* calendar of the model.  Within one call the remote dataset either
\* answers every request or none.  A year that cannot be loaded is logged
\* (warned) and the error returned is nil on every path.
fetchTradeDates(mem, files, today, window, cdn, write) ==
    LET oldest == IF today - (window - 1) > 0 THEN today - (window - 1) ELSE 0
        yearsNeeded == {Year(d) : d \in oldest..today}
        loaded == Preload(mem, files, yearsNeeded, cdn, write)
    IN  [dates |-> TradeDatesFrom(loaded.mem, loaded.files, today, oldest, cdn, write),
         err |-> FALSE,
         warned |-> \E y \in yearsNeeded : y \notin DOMAIN loaded.mem,
         mem |-> loaded.mem, files |-> loaded.files]

\* loadTradeDatesCache: the window file as GetTradeDates finds it
loadTradeDatesCache == tradeDatesFile

\* saveTradeDatesCache at the present time
saveTradeDatesCache(dates) ==
    [exists |-> TRUE, TradeDates |-> dates, UpdatedAt |-> Stamp(clock)]

\* GetTradeDates(days): the cached window while it is not empty and younger
\* than 24 hours, else a new window of 90 days, saved with the present time
\* unless the save fails (which is only logged).  When fetchTradeDates
\* returns an error the old window is the answer if it is not empty, else
\* the error.
GetTradeDates(days) ==
    LET cached == loadTradeDatesCache
        report(dates, err, fresh, f, saved) ==
            [call |-> "GetTradeDates", days |-> days, today |-> clock.day,
             dates |-> dates, err |-> err, cached |-> fresh,
             loaded |-> DOMAIN f.mem, warned |-> f.warned, saved |-> saved]
    IN
    IF /\ cached.exists
       /\ Len(cached.TradeDates) > 0
       /\ Stamp(clock) - cached.UpdatedAt < tradeDatesTTL
      THEN /\ answer' = report(filterTradeDates(cached.TradeDates, days), FALSE, TRUE,
                               [mem |-> holidayCacheData, warned |-> FALSE], FALSE)
           /\ UNCHANGED <<PusherAtRest, clock, holidayCacheData, holidayFiles,
                          tradeDatesFile>>
      ELSE \E cdn, write, save \in BOOLEAN :
              LET f == fetchTradeDates(holidayCacheData, holidayFiles, clock.day,
                                       tradeDatesWindow, cdn, write)
              IN  /\ holidayCacheData' = f.mem
                  /\ holidayFiles' = f.files
                  /\ IF f.err
                       THEN /\ answer' =
                                  IF cached.exists /\ Len(cached.TradeDates) > 0
                                    THEN report(filterTradeDates(cached.TradeDates, days),
                                                FALSE, FALSE, f, FALSE)
                                    ELSE report(<<>>, TRUE, FALSE, f, FALSE)
                            /\ UNCHANGED tradeDatesFile
                       ELSE /\ answer' = report(filterTradeDates(f.dates, days),
                                                FALSE, FALSE, f, save)
                            /\ tradeDatesFile' = IF save THEN saveTradeDatesCache(f.dates)
                                                         ELSE tradeDatesFile
                  /\ UNCHANGED <<PusherAtRest, clock>>

\* The times of day at which the window is asked for: 9:00 and 15:00.
CallTimes == {9 * 60, 15 * 60}

\* Time passes to the next of these times.
ClockAdvance ==
    /\ clock' = IF \E m \in CallTimes : m > clock.minute
                  THEN [clock EXCEPT !.minute = CHOOSE m \in CallTimes :
                                                   /\ m > clock.minute
                                                   /\ \A k \in CallTimes :
                                                         k > clock.minute => m <= k]
                  ELSE [day |-> clock.day + 1,
                        minute |-> CHOOSE m \in CallTimes :
                                      \A k \in CallTimes : m <= k]
    /\ clock'.day \in Days
    /\ UNCHANGED <<PusherAtRest, holidayCacheData, holidayFiles, tradeDatesFile, answer>>

InitTradeDates ==
    /\ PusherConstructed(Limit(0, 0, 0))
    /\ marketPhase = "closed"
    /\ clock = [day |-> 0, minute |-> 9 * 60]
    /\ holidayCacheData = EmptyMap
    /\ holidayFiles \in {EmptyMap, AllHolidayFiles}
    /\ tradeDatesFile = [exists |-> FALSE, TradeDates |-> <<>>, UpdatedAt |-> 0]
    /\ answer = [call |-> "none"]
    /\ args = NoArgs

NextTradeDates ==
    \/ \E days \in 1..MaxDays : GetTradeDates(days)
    \/ ClockAdvance

SpecTradeDates == InitTradeDates /\ [][NextTradeDates]_vars

\* strconv of a date string back to its day
C20_DayOf(dateStr) == CHOOSE d \in 0..(Len(DateStr) - 1) : Format(d) = dateStr

C20_IsTradingDay(d) == ~IsWeekend(d) /\ ~C18_DatasetOff(d)

\* C20: what GetTradeDates(N) returns holds at most N dates, each older
\* than the one before it, every one a trading day, and begins with today
\* whenever today is a trading day; also when the answer is the window
\* saved on an earlier day.
C20_TradeDatesWindow ==
    answer.call = "GetTradeDates" =>
       LET dates == answer.dates
       IN  /\ Len(dates) <= answer.days
           /\ \A i \in 1..(Len(dates) - 1) : C20_DayOf(dates[i]) > C20_DayOf(dates[i + 1])
           /\ (\A y \in Years : y \in answer.loaded) =>
                 \A i \in 1..Len(dates) : C20_IsTradingDay(C20_DayOf(dates[i]))
           /\ (C20_IsTradingDay(answer.today) /\ Len(dates) > 0) =>
                 dates[1] = Format(answer.today)

-----------------------------------------------------------------------------
(* C21: the window file, its age and a refresh that cannot load the        *)
(* holiday dataset.                                                        *)

\* The window GetTradeDates finds is not empty and younger than 24 hours.
C21_Fresh ==
    /\ tradeDatesFile.exists
    /\ Len(tradeDatesFile.TradeDates) > 0
    /\ Stamp(clock) - tradeDatesFile.UpdatedAt < tradeDatesTTL

\* A call of GetTradeDates: the only step that leaves the clock alone.
C21_Call == answer'.call = "GetTradeDates" /\ clock' = clock

\* C21: GetTradeDates answers from the saved window without computing when
\* that window is not empty and younger than 24 hours, else computes a new
\* window and saves it; when computing fails for want of the holiday
\* dataset and a non-empty old window exists, the old window cut to N is
\* the answer, the saved window stays, and there is no error; an error is
\* returned only when computing fails and no non-empty window exists.
C21_StaleWindowOnFailure ==
    [][C21_Call =>
         LET old == tradeDatesFile
             new == answer'
         IN  /\ C21_Fresh =>
                  /\ new.cached /\ ~new.err
                  /\ new.dates = filterTradeDates(old.TradeDates, new.days)
                  /\ tradeDatesFile' = old
             /\ (~C21_Fresh /\ ~new.warned) =>
                  /\ ~new.cached /\ ~new.err
                  /\ new.saved => /\ tradeDatesFile'.UpdatedAt = Stamp(clock)
                                  /\ new.dates = filterTradeDates(tradeDatesFile'.TradeDates,
                                                                  new.days)
             /\ (~C21_Fresh /\ new.warned /\ Len(old.TradeDates) > 0) =>
                  /\ ~new.err
                  /\ new.dates = filterTradeDates(old.TradeDates, new.days)
                  /\ tradeDatesFile' = old
             /\ new.err => (~C21_Fresh /\ new.warned /\ Len(old.TradeDates) = 0)
      ]_vars

-----------------------------------------------------------------------------
(* The upstream record of one symbol: parseStockWithOrderBook,             *)
(* calculateOrderBookTotals and the fingerprint of the book parsed.        *)

\* strconv.ParseFloat of a price field, in thousandths; a field that does
\* not parse gives 0, the error being dropped.
ParseFloat(s) ==
    CASE s = "3.913" -> 3913
      [] s = "3.914" -> 3914
      [] s = "3.920" -> 3920
      [] s = "0.000" -> 0
      [] OTHER -> 0

\* strconv.ParseInt of a volume field, in shares; 0 when it does not parse.
ParseInt(s) ==
    CASE s = "50" -> 50
      [] s = "300" -> 300
      [] s = "1250" -> 1250
      [] s = "0" -> 0
      [] OTHER -> 0

\* float64(a) / float64(b), kept as the fraction a/b
Quotient(a, b) == [num |-> a, den |-> b]

\* models.OrderBookItem; the zero value of Percent is 0
OrderBookItem(price, size) ==
    [Price |-> price, Size |-> size, Total |-> 0, Percent |-> Quotient(0, 1)]

\* The sum of the sizes of the first i items.
RECURSIVE SumSizes(_, _)
SumSizes(items, i) == IF i = 0 THEN 0 ELSE SumSizes(items, i - 1) + items[i].Size

\* The largest size of the items, 0 when none is positive.
MaxSize(items) ==
    LET sizes == {items[i].Size : i \in 1..Len(items)} \cup {0}
    IN  CHOOSE m \in sizes : \A k \in sizes : k <= m

\* A calculateOrderBookTotals whose Percent is the share of the side's sum.
calculateOrderBookTotalsOfSum(items) ==
    LET sum == SumSizes(items, Len(items))
    IN  [i \in 1..Len(items) |->
            [items[i] EXCEPT !.Total = SumSizes(items, i),
                             !.Percent = IF sum > 0 THEN Quotient(items[i].Size, sum)
                                                    ELSE @]]

\* calculateOrderBookTotals: Total is the running sum, Percent the size over
\* the largest size when that is positive.
calculateOrderBookTotals(items) ==
    LET maxSize == MaxSize(items)
    IN  [i \in 1..Len(items) |->
            [items[i] EXCEPT !.Total = SumSizes(items, i),
                             !.Percent = IF maxSize > 0
                                           THEN Quotient(items[i].Size, maxSize)
                                           ELSE @]]

\* The number of levels of a side in the record
orderBookDepth == 5

\* The two fields of level i (from 0) of the side whose fields begin at
\* index base of parts (indices from 0 as in the source).
LevelFields(parts, base, i) ==
    [vol |-> ParseInt(parts[base + 2 * i + 1]),
     price |-> ParseFloat(parts[base + 2 * i + 2])]

PricePositive(l) == l.price > 0

\* One loop of parseStockWithOrderBook: the levels whose price is positive,
\* in order, each with its volume in lots.
ParseSide(parts, base, minLen) ==
    IF Len(parts) >= minLen
      THEN LET fields == [i \in 1..orderBookDepth |-> LevelFields(parts, base, i - 1)]
               kept == SelectSeq(fields, PricePositive)
           IN  [i \in 1..Len(kept) |-> OrderBookItem(kept[i].price, kept[i].vol \div 100)]
      ELSE <<>>

\* parseStockWithOrderBook; of the fields of parseStockFields only the
\* symbol is carried.
parseStockWithOrderBook(code, parts) ==
    LET bids == ParseSide(parts, 10, 20)
        asks == ParseSide(parts, 20, 30)
    IN  StockRecord(code, OrderBook(calculateOrderBookTotals(bids),
                                    calculateOrderBookTotals(asks)))

\* What the upstream may send for one level: volume and price.
LevelTexts == {<<"300", "3.914">>, <<"1250", "3.913">>, <<"50", "3.920">>,
               <<"0", "0.000">>, <<"150", "">>}

\* The ten fields of a side.
SideTexts == {l[1] \o l[2] \o l[3] \o l[4] \o l[5] :
                 l \in [1..orderBookDepth -> LevelTexts]}

SomeSideTexts ==
    {<<"300", "3.914", "1250", "3.913", "0", "0.000", "0", "0.000", "0", "0.000">>,
     <<"0", "0.000", "0", "0.000", "0", "0.000", "0", "0.000", "0", "0.000">>}

\* A record of 32 fields: name, open, previous close, price, high, low,
\* bid, ask, volume, amount, the bids, the asks, date and time.
Record(bidTexts, askTexts) ==
    <<"name", "3.910", "3.900", "3.914", "3.920", "3.900", "3.913", "3.914",
      "100000", "391400.000">> \o bidTexts \o askTexts \o <<"2025-12-29", "15:00:00">>

Records ==
    {Record(b, a) : b \in SideTexts, a \in SomeSideTexts}
      \cup {Record(b, a) : b \in SomeSideTexts, a \in SideTexts}

\* parseSinaStockDataWithOrderBook hands a record of at least 32 fields to
\* parseStockWithOrderBook.
parseStockWithOrderBook_Call ==
    /\ args.call = "parseStockWithOrderBook"
    /\ answer.call = "none"
    /\ answer' = [call |-> "parseStockWithOrderBook",
                  result |-> parseStockWithOrderBook(args.code, args.parts)]
    /\ UNCHANGED <<PusherAtRest, clock, holidayCacheData, holidayFiles, tradeDatesFile>>

InitParse ==
    /\ PusherConstructed(Limit(0, 0, 0))
    /\ marketPhase = "trading"
    /\ clock = [day |-> 0, minute |-> 15 * 60]
    /\ holidayCacheData = EmptyMap
    /\ holidayFiles = EmptyMap
    /\ tradeDatesFile = [exists |-> FALSE, TradeDates |-> <<>>, UpdatedAt |-> 0]
    /\ answer = [call |-> "none"]
    /\ \E parts \in Records :
          args = [call |-> "parseStockWithOrderBook", code |-> "sh600000", parts |-> parts]

NextParse == parseStockWithOrderBook_Call

SpecParse == InitParse /\ [][NextParse]_vars

\* The levels of a side of the record as (price, lots), in order.
C24_Levels(parts, base) ==
    [i \in 1..orderBookDepth |->
        Level(LevelFields(parts, base, i - 1).price,
              LevelFields(parts, base, i - 1).vol \div 100)]

\* The levels before the first whose price is zero or missing.
C24_Prefix(levels) ==
    LET stops == {i \in 1..Len(levels) : levels[i].Price <= 0}
        n == IF stops = {} THEN Len(levels)
                           ELSE (CHOOSE i \in stops : \A k \in stops : i <= k) - 1
    IN  SubSeq(levels, 1, n)

\* The price and size of every item parsed.
C24_Parsed(items) == [i \in 1..Len(items) |-> Level(items[i].Price, items[i].Size)]

\* C24: parsing the five bid (or ask) levels in order, the first level whose
\* price is zero or missing ends the parsing of that side: what is parsed of
\* a side is the record's levels up to that level, a prefix of them.
C24_ParsedSideIsPrefix ==
    answer.call = "parseStockWithOrderBook" =>
       /\ C24_Parsed(answer.result.OrderBook.Bids) = C24_Prefix(C24_Levels(args.parts, 10))
       /\ C24_Parsed(answer.result.OrderBook.Asks) = C24_Prefix(C24_Levels(args.parts, 20))

\* What C25 asks of one side.
C25_Side(items) ==
    /\ Len(items) <= orderBookDepth
    /\ \A i \in 1..Len(items) :
          /\ items[i].Price > 0
          /\ items[i].Total = SumSizes(items, i)
          /\ i > 1 => items[i - 1].Total <= items[i].Total
          /\ items[i].Percent.den > 0
          /\ 0 <= items[i].Percent.num
          /\ items[i].Percent.num <= items[i].Percent.den
          /\ items[i].Percent.num * MaxSize(items) = items[i].Size * items[i].Percent.den
          /\ (items[i].Size = MaxSize(items) /\ items[i].Size > 0) =>
                items[i].Percent.num = items[i].Percent.den

\* C25: a parsed book has at most five bid and five ask levels, each of
\* price above 0 (a side may be empty); the cumulative size of level i is
\* the sum of the sizes of levels 0..i and never decreases; the fraction of
\* a level is its size over the largest size of its side, lies in [0, 1]
\* and is 1 for a level of the largest size when that size is positive.
C25_TotalsAndFractions ==
    answer.call = "parseStockWithOrderBook" =>
       /\ C25_Side(answer.result.OrderBook.Bids)
       /\ C25_Side(answer.result.OrderBook.Asks)

\* A book parsed with three bid levels of sizes 3, 12 and 0 and no asks.
C25_Witness ==
    /\ answer.call = "parseStockWithOrderBook"
    /\ Len(answer.result.OrderBook.Asks) = 0
    /\ LET bids == answer.result.OrderBook.Bids
       IN  /\ Len(bids) = 3
           /\ bids[1].Size = 3 /\ bids[2].Size = 12 /\ bids[3].Size = 0
           /\ bids[3].Total = 15
           /\ bids[1].Percent = Quotient(3, 12)
           /\ bids[2].Percent = Quotient(12, 12)

-----------------------------------------------------------------------------
(* orderBookHash over pairs of order books                                 *)

\* Levels of a fund quoted in thousandths and the sides made of at most
\* two of them.
HashLevels == {Level(3913, 3), Level(3914, 3), Level(3914, 12)}
HashSides == {<<>>} \cup {<<l>> : l \in HashLevels}
                    \cup {<<l, k>> : l \in HashLevels, k \in HashLevels}
HashBooks == {OrderBook(b, a) : b \in HashSides, a \in {<<>>, <<Level(3920, 3)>>}}
               \cup {OrderBook(b, a) : b \in {<<>>, <<Level(3913, 3)>>}, a \in HashSides}

\* orderBookHash is applied to the book pushed last and to the book fetched.
orderBookHash_Call ==
    /\ args.call = "orderBookHash"
    /\ answer.call = "none"
    /\ answer' = [call |-> "orderBookHash", a |-> orderBookHash(args.a),
                  b |-> orderBookHash(args.b)]
    /\ UNCHANGED <<PusherAtRest, clock, holidayCacheData, holidayFiles, tradeDatesFile>>

InitHash ==
    /\ PusherConstructed(Limit(0, 0, 0))
    /\ marketPhase = "trading"
    /\ clock = [day |-> 0, minute |-> 15 * 60]
    /\ holidayCacheData = EmptyMap
    /\ holidayFiles = EmptyMap
    /\ tradeDatesFile = [exists |-> FALSE, TradeDates |-> <<>>, UpdatedAt |-> 0]
    /\ answer = [call |-> "none"]
    /\ \E a \in HashBooks, b \in HashBooks : args = [call |-> "orderBookHash", a |-> a, b |-> b]

NextHash == orderBookHash_Call

SpecHash == InitHash /\ [][NextHash]_vars

\* Price and size of the best bid and of the best ask, 0 for a side that
\* has no level.
C22_Best(ob) ==
    <<IF Len(ob.Bids) > 0 THEN ob.Bids[1].Price ELSE 0,
      IF Len(ob.Bids) > 0 THEN ob.Bids[1].Size ELSE 0,
      IF Len(ob.Asks) > 0 THEN ob.Asks[1].Price ELSE 0,
      IF Len(ob.Asks) > 0 THEN ob.Asks[1].Size ELSE 0>>

\* C22: the fingerprints of two snapshots are equal exactly when their
\* best-bid price and size and best-ask price and size are equal: levels
\* beyond the first never change the fingerprint, and any change of a best
\* price or size changes it.
C22_HashIffBestEqual ==
    answer.call = "orderBookHash" =>
       ((answer.a = answer.b) <=> (C22_Best(args.a) = C22_Best(args.b)))

-----------------------------------------------------------------------------
(* The three candle tasks: the minute task of a normal tick and the daily  *)
(* tier during trading, and the full push of the tenth normal tick after   *)
(* the close, for a subscription to minute or to weekly candles.  The      *)
(* other workers of a normal dispatch take no step here, so that dispatch  *)
(* ends by its timeout.                                                    *)

\* The normal tick that carries the full push outside the sessions
closedFullPushTick == 10

InitCandles ==
    /\ InService(MaxSpawn + 3, closedFullPushTick, 0)
    /\ marketPhase \in {"trading", "closed"}
    /\ lastMarketStatus = marketPhase
    /\ subscribedCodes = <<"sh600000">>
    /\ currentOrderBook = ""
    /\ lastOrderBookHash = NoHash
    /\ klineSub \in {[Code |-> "sh600000", Period |-> "1m"],
                     [Code |-> "sh600000", Period |-> "1w"]}
    /\ lastKLineTime = 0
    /\ klineRecorded = FALSE

\* The daily ticker fires until a daily worker has been spawned.
DailyTickerFire ==
    /\ \A i \in WorkerIds : workers[i].task # "pushKLineDay"
    /\ TickerFire("klineDay")

NextCandles ==
    \/ TickerFire("normal")
    \/ DailyTickerFire
    \/ pushLoop_Normal
    \/ pushLoop_KLineDay
    \/ runParallel_Done
    \/ runParallel_Timeout
    \/ \E i \in WorkerIds : pushKLineData_Read(i)
    \/ \E i \in WorkerIds : pushKLineMinute_Read(i)
    \/ \E i \in WorkerIds : pushKLineDay_Read(i)
    \/ \E i \in WorkerIds : GetKLineData_Lookup(i)
    \/ \E i \in WorkerIds : GetKLineData_Fetch(i)
    \/ \E i \in WorkerIds : GetKLineData_Store(i)
    \/ \E i \in WorkerIds : pushKLineMinute_SetTime(i)
    \/ \E i \in WorkerIds : pushKLineMinute_Emit(i)
    \/ \E i \in WorkerIds : pushKLineData_Emit(i)

SpecCandles == InitCandles /\ [][NextCandles]_vars

\* Worker i publishes a candle event in this step.
C23_Emits(i) ==
    /\ workers[i].pc = "emit" /\ workers'[i].pc = "done"
    /\ Len(sink'[EventKLineUpdate]) = Len(sink[EventKLineUpdate]) + 1

C23_Last(events) == events[Len(events)]

\* C23: every candle event published with incremental = true carries one
\* bucket, has period 1m, and the bucket is the newest of the series the
\* minute task fetched; the events of the full push and of the daily tier
\* never carry the incremental tag.
C23_IncrementalIsNewestBucket ==
    /\ [](\A k \in 1..Len(Published(EventKLineUpdate)) :
             LET e == Published(EventKLineUpdate)[k]
             IN  e.incremental => (Len(e.data) = 1 /\ e.period = "1m"))
    /\ [][/\ Len(sink'[EventKLineUpdate]) > Len(sink[EventKLineUpdate]) =>
               \E i \in WorkerIds : C23_Emits(i)
          /\ \A i \in WorkerIds :
               C23_Emits(i) =>
                  LET e == C23_Last(sink'[EventKLineUpdate])
                  IN  IF workers[i].task = "pushKLineMinute"
                        THEN /\ e.incremental
                             /\ e.data = <<workers[i].data[Len(workers[i].data)]>>
                             /\ e.code = workers[i].code
                        ELSE /\ workers[i].task \in {"pushKLineData", "pushKLineDay"}
                             /\ ~e.incremental
         ]_vars

\* The minute task fetched two buckets and published the newer one alone,
\* and a worker of the daily tier has run beside it.
C23_Witness ==
    /\ \E k \in 1..Len(Published(EventKLineUpdate)) :
          LET e == Published(EventKLineUpdate)[k]
          IN  e.incremental /\ e.data = <<Candle(T0932)>>
    /\ \E i \in WorkerIds : workers[i].task = "pushKLineDay" /\ workers[i].pc = "done"
    /\ klineCache # EmptyMap
    /\ \E key \in DOMAIN klineCache : Len(klineCache[key].data) = 2

-----------------------------------------------------------------------------
(* The session phase changes while the scheduler runs: the morning from    *)
(* the pre-open to the lunch break, the phase cache of getMarketPhase and  *)
(* the status task.  Only the status workers take steps; the other workers *)
(* of a normal dispatch stay where they are, so a dispatch ends by its     *)
(* timeout.                                                                *)

\* The phase GetMarketStatus answers after the present one, in the morning.
PhaseAfter(phase) ==
    CASE phase = "pre_market" -> "trading"
      [] phase = "trading" -> "lunch_break"
      [] OTHER -> phase

\* The wall clock passes 9:30 or 11:30: GetMarketStatus answers the next phase.
PhaseChange ==
    /\ PhaseAfter(marketPhase) # marketPhase
    /\ marketPhase' = PhaseAfter(marketPhase)
    /\ UNCHANGED <<now, pusherVars, ctrlVars, workers, crashed, cacheVars, listeners, inbox,
                   sink, upstream, klineRecorded, limit, extVars>>

InitStatus ==
    /\ InService(MaxSpawn + 5, MaxTicks, phaseCacheTTL)
    /\ marketPhase = "pre_market"
    /\ lastMarketStatus = "pre_market"
    /\ subscribedCodes = <<"sh600000">>
    /\ currentOrderBook = ""
    /\ lastOrderBookHash = NoHash
    /\ klineSub = NoSubscription
    /\ lastKLineTime = 0
    /\ klineRecorded = FALSE

NextStatus ==
    \/ Tick
    \/ PhaseChange
    \/ TickerFire("normal")
    \/ pushLoop_Normal
    \/ runParallel_Timeout
    \/ \E i \in WorkerIds : pushMarketStatus_Get(i)
    \/ \E i \in WorkerIds : pushMarketStatus_Check(i)
    \/ \E i \in WorkerIds : pushMarketStatus_Emit(i)

SpecStatus == InitStatus /\ [][NextStatus]_vars

\* The status task of worker i ends in this step, having observed phase b.
C26_StatusTaskEnds(i, b) ==
    /\ workers[i].task = "pushMarketStatus"
    /\ workers[i].pc \in {"check", "emit"} /\ workers'[i].pc = "done"
    /\ workers[i].data[1].Status = b

\* C26: when the session phase changes to a phase B whose normal-tier tasks
\* include the status task (trading, lunch_break, closed) while the
\* scheduler runs, a market-status event carrying B is published before the
\* phase changes again, whether the phase cache or the status task sees the
\* new phase first: a status task that ends having observed B, B still
\* being the phase, leaves an event carrying B published.
C26_StatusEventOnPhaseChange ==
    [][\A i \in WorkerIds : \A b \in {"trading", "lunch_break", "closed"} :
          (C26_StatusTaskEnds(i, b) /\ marketPhase' = b) =>
             \E k \in 1..Len(sink'[EventMarketStatusUpdate]) :
                sink'[EventMarketStatusUpdate][k].Status = b
      ]_vars

-----------------------------------------------------------------------------
(* The marker of the minute task against a change of the subscription: one *)
(* normal tick during trading and a request of the front end for the       *)
(* minute candles of another symbol.  The full push the request starts and *)
(* the quote and index workers take no step here.                          *)

InitMarker ==
    /\ InService(MaxSpawn + 2, 1, 0)
    /\ marketPhase = "trading"
    /\ lastMarketStatus = "trading"
    /\ subscribedCodes = <<"sh600000">>
    /\ currentOrderBook = ""
    /\ lastOrderBookHash = NoHash
    /\ klineSub = [Code |-> "sh600000", Period |-> "1m"]
    /\ lastKLineTime \in {0, parseKLineTime(T0931)}
    /\ klineRecorded = (lastKLineTime # 0)

NextMarker ==
    \/ EmitRequest(EventKLineSubscribe, <<"sz000001", "1m">>)
    \/ OnKLineSubscribe
    \/ TickerFire("normal")
    \/ pushLoop_Normal
    \/ runParallel_Timeout
    \/ \E i \in WorkerIds : pushKLineMinute_Read(i)
    \/ \E i \in WorkerIds : GetKLineData_Lookup(i)
    \/ \E i \in WorkerIds : GetKLineData_Fetch(i)
    \/ \E i \in WorkerIds : GetKLineData_Store(i)
    \/ \E i \in WorkerIds : pushKLineMinute_SetTime(i)
    \/ \E i \in WorkerIds : pushKLineMinute_Emit(i)

SpecMarker == InitMarker /\ [][NextMarker]_vars

\* Worker i, a minute task that read the subscription in force, records a
\* bucket in this step.
C27_Records(i) ==
    /\ workers[i].task = "pushKLineMinute"
    /\ workers[i].pc = "setTime" /\ workers'[i].pc # "setTime"
    /\ workers[i].code = klineSub.Code /\ klineSub.Period = "1m"

\* C27: the marker of the last bucket pushed belongs to the subscription in
\* force: after a change of subscription it stays 0 until a minute task that
\* read the new subscription records a bucket, and no incremental candle
\* event for the symbol before is published once the change has taken
\* effect, also when a minute task that read the old subscription is still
\* under way while the subscription is replaced.
C27_MarkerBelongsToSubscription ==
    [][/\ (lastKLineTime' # lastKLineTime /\ lastKLineTime' # 0) =>
             \E i \in WorkerIds : C27_Records(i)
       /\ Len(sink'[EventKLineUpdate]) > Len(sink[EventKLineUpdate]) =>
             LET e == sink'[EventKLineUpdate][Len(sink'[EventKLineUpdate])]
             IN  e.incremental => e.code = klineSub.Code
      ]_vars

-----------------------------------------------------------------------------
(* C28: lookups of one key that overlap *)

\* Worker i stores what it fetched in this step.
C28_Stores(i) == workers[i].pc = "store" /\ workers'[i].pc # "store"

\* Map c2 is map c with the entry of key replaced by (data, now) and every
\* other entry as it was.
C28_Replaced(c, c2, key, data) ==
    /\ DOMAIN c2 = DOMAIN c \cup {key}
    /\ c2[key].data = data /\ c2[key].timestamp = now
    /\ \A k \in DOMAIN c \ {key} : c2[k] = c[k]

\* Every entry of both caches is a payload the upstream gave for its key
\* with the time it was stored.
C28_WellFormed ==
    /\ \A key \in DOMAIN cache :
          /\ key \in Codes
          /\ Ok(cache[key].data) \in StockFetchResults(key)
          /\ cache[key].timestamp \in 0..now
    /\ \A key \in DOMAIN klineCache :
          /\ Ok(klineCache[key].data) \in KLineFetchResults(key[2])
          /\ klineCache[key].timestamp \in 0..now

\* C28: two lookups of the same missing or expired key that overlap may
\* both fetch; each goes on with the payload it fetched itself, and the
\* cache then holds one well-formed entry for the key, with the payload and
\* the time of the lookup that stored last; the entries of other keys and
\* the other cache stay as they were.
C28_LastStoreWins ==
    /\ []C28_WellFormed
    /\ [][/\ (cache' # cache \/ klineCache' # klineCache) =>
                \E i \in WorkerIds : C28_Stores(i)
          /\ \A i \in WorkerIds :
                C28_Stores(i) =>
                   IF workers[i].task = "pushOrderBookData"
                     THEN /\ C28_Replaced(cache, cache', StockCacheKey(workers[i].code),
                                          workers[i].data)
                          /\ klineCache' = klineCache
                          /\ workers'[i].pc = "setHash" =>
                                workers'[i].data = <<GetRealOrderBook(workers[i].data)>>
                     ELSE /\ C28_Replaced(klineCache, klineCache', KLineKeyOf(workers[i]),
                                          workers[i].data)
                          /\ cache' = cache
                          /\ workers'[i].data = workers[i].data
         ]_vars

\* Two order-book lookups found no entry at time 0 and both fetched: one has
\* stored its payload, the other is about to store a different one.
C28_Witness ==
    /\ now = 0
    /\ UpstreamCount(upstream, <<"book", "sh600000">>) = 2
    /\ "sh600000" \in DOMAIN cache
    /\ \E j \in WorkerIds :
          /\ workers[j].task = "pushOrderBookData" /\ workers[j].pc = "store"
          /\ workers[j].code = "sh600000"
          /\ workers[j].data # cache["sh600000"].data

-----------------------------------------------------------------------------
(* C29: one tier per turn of the control loop *)

\* The tiers whose tick the loop receives in this step.
C29_Taken == {t \in Tiers : tickers[t].pending /\ ~tickers'[t].pending}

\* The workers spawned in this step.
C29_Spawned == (1..Len(workers')) \ WorkerIds

\* C29: the control loop handles the tick of one tier per turn and stays in
\* that dispatch until all its tasks have finished or its timeout fires: it
\* never awaits two dispatches at once, and a tick of any tier that fires
\* during a dispatch is handled in a later turn only.
C29_OneTierPerIteration ==
    /\ [](loopPc # "wait" => Joined = {})
    /\ [][/\ Cardinality(C29_Taken) <= 1
          /\ C29_Taken # {} => loopPc = "select"
          /\ loopPc = "wait" =>
                /\ C29_Taken = {}
                /\ \A i \in C29_Spawned : ~workers'[i].joined
                /\ \A i \in WorkerIds : workers'[i].joined => workers[i].joined
                /\ loopPc' = "select" =>
                      \/ \A i \in Joined : ~Running(i)
                      \/ \E i \in Joined : Running(i) /\ workers'[i].late
          /\ (loopPc = "select" /\ loopPc' = "wait") =>
                /\ Cardinality(C29_Taken) = 1
                /\ {i \in 1..Len(workers') : workers'[i].joined} = C29_Spawned
         ]_vars

\* The loop awaits the workers of a normal dispatch while a tick of the
\* fast tier has fired and is pending.
C29_Witness ==
    /\ loopPc = "wait"
    /\ tickers["fast"].pending
    /\ \E i \in Joined : workers[i].task = "pushStockData" /\ Running(i)
    /\ \A i \in Joined : workers[i].task # "pushOrderBookData"

-----------------------------------------------------------------------------
(* C30: workers that outlive their dispatch *)

\* The running instances of a task.
C30_Instances(task) == {i \in WorkerIds : workers[i].task = task /\ Running(i)}

-----------------------------------------------------------------------------
(* C31: the normal tier during trading *)

\* The tasks of the workers spawned in this step, in the order spawned.
C31_Dispatched == [k \in 1..(Len(workers') - Len(workers)) |-> workers'[Len(workers) + k].task]

\* The loop handles a normal tick in this step.
C31_NormalTick == normalCount' = normalCount + 1

\* C31: while the phase the scheduler sees is trading, every normal tick
\* dispatches quotes, indices and minute candles, and the status task is
\* added on every second normal tick, so that consecutive normal ticks
\* alternate between the two sets; the order-book task is never part of a
\* normal dispatch during trading.
C31_TradingNormalTier ==
    [][(C31_NormalTick /\ lastMarketStatus' = "trading") =>
          /\ C31_Dispatched =
                <<"pushStockData", "pushMarketIndices", "pushKLineMinute">>
                  \o (IF normalCount' % 2 = 0 THEN <<"pushMarketStatus">> ELSE <<>>)
          /\ \A k \in 1..Len(C31_Dispatched) : C31_Dispatched[k] # "pushOrderBookData"
          /\ loopPc' = "wait"
      ]_vars

\* Two normal ticks have been handled: the first dispatched three tasks,
\* the second the same three and the status task.
C31_Witness ==
    /\ normalCount = 2
    /\ Len(workers) = 7
    /\ workers[3].task = "pushKLineMinute"
    /\ workers[4].task = "pushStockData"
    /\ workers[7].task = "pushMarketStatus"

-----------------------------------------------------------------------------
(* The fast and the daily tier, in and out of trading.  The focus symbol   *)
(* is unset, so the order-book worker returns at its first read; the       *)
(* quote and index workers of the normal dispatch take no step here.       *)

InitTiers ==
    /\ InService(MaxSpawn + 3, 1, 0)
    /\ marketPhase \in {"trading", "lunch_break"}
    /\ lastMarketStatus = marketPhase
    /\ subscribedCodes = <<"sh600000">>
    /\ currentOrderBook = ""
    /\ lastOrderBookHash = NoHash
    /\ klineSub \in {[Code |-> "sh600000", Period |-> "1m"],
                     [Code |-> "sh600000", Period |-> "1w"]}
    /\ lastKLineTime = 0
    /\ klineRecorded = FALSE

\* The fast ticker fires until an order-book worker has been spawned.
FastTickerFire ==
    /\ \A i \in WorkerIds : workers[i].task # "pushOrderBookData"
    /\ TickerFire("fast")

NextTiers ==
    \/ FastTickerFire
    \/ TickerFire("normal")
    \/ DailyTickerFire
    \/ pushLoop_Fast
    \/ pushLoop_Normal
    \/ pushLoop_KLineDay
    \/ runParallel_Done
    \/ runParallel_Timeout
    \/ \E i \in WorkerIds : pushOrderBookData_Read(i)
    \/ \E i \in WorkerIds : pushKLineMinute_Read(i)
    \/ \E i \in WorkerIds : pushKLineDay_Read(i)
    \/ \E i \in WorkerIds : GetKLineData_Lookup(i)
    \/ \E i \in WorkerIds : GetKLineData_Fetch(i)
    \/ \E i \in WorkerIds : GetKLineData_Store(i)
    \/ \E i \in WorkerIds : pushKLineMinute_SetTime(i)
    \/ \E i \in WorkerIds : pushKLineMinute_Emit(i)
    \/ \E i \in WorkerIds : pushKLineData_Emit(i)

SpecTiers == InitTiers /\ [][NextTiers]_vars

\* The loop receives a tick of tier t in this step.
C32_Takes(t) == tickers[t].pending /\ ~tickers'[t].pending

\* The tasks of the workers spawned in this step, in the order spawned.
C32_Dispatched == [k \in 1..(Len(workers') - Len(workers)) |-> workers'[Len(workers) + k].task]

\* Worker i of the given task publishes a candle event in this step.
C32_Publishes(i, task) ==
    /\ workers[i].task = task
    /\ workers[i].pc # "done" /\ workers'[i].pc = "done"
    /\ sink'[EventKLineUpdate] # sink[EventKLineUpdate]

\* C32: the fast and the daily tier dispatch work only while the phase the
\* scheduler sees is trading.  A fast tick dispatches exactly the order-book
\* task if it is trading and nothing otherwise; a daily tick dispatches
\* exactly the day/week/month candle task if it is trading and nothing
\* otherwise.  The daily candle task publishes only when the subscribed
\* period is not 1m, the minute task only when it is 1m.
C32_FastAndDailyTier ==
    [][/\ C32_Takes("fast") =>
            C32_Dispatched = IF lastMarketStatus' = "trading"
                               THEN <<"pushOrderBookData">> ELSE <<>>
       /\ C32_Takes("klineDay") =>
            C32_Dispatched = IF lastMarketStatus' = "trading"
                               THEN <<"pushKLineDay">> ELSE <<>>
       /\ \A i \in WorkerIds :
            /\ C32_Publishes(i, "pushKLineDay") =>
                 klineSub.Period # "1m" /\ workers[i].period = klineSub.Period
            /\ C32_Publishes(i, "pushKLineMinute") =>
                 klineSub.Period = "1m" /\ workers[i].period = "1m"
      ]_vars

\* In trading a fast tick and a daily tick have each dispatched their one
\* task, and the daily task has published the weekly series.
C32_Witness ==
    /\ lastMarketStatus = "trading"
    /\ \E i, j \in WorkerIds :
         /\ workers[i].task = "pushOrderBookData"
         /\ workers[j].task = "pushKLineDay" /\ workers[j].pc = "done"
    /\ klineSub.Period = "1w"
    /\ Len(sink[EventKLineUpdate]) > 0

-----------------------------------------------------------------------------
(* The normal tier outside trading.  The clock passes 9:30 and 11:30 while *)
(* the loop runs, so the phase the scheduler sees lags the calendar by up  *)
(* to the life of the phase cache.  No worker takes a step here: every     *)
(* dispatch ends by its timeout.                                           *)

InitCadence ==
    /\ InService(closedFullPushTick, closedFullPushTick, phaseCacheTTL)
    /\ marketPhase \in {"pre_market", "lunch_break", "closed"}
    /\ lastMarketStatus = marketPhase
    /\ subscribedCodes = <<"sh600000">>
    /\ currentOrderBook = ""
    /\ lastOrderBookHash = NoHash
    /\ klineSub = NoSubscription
    /\ lastKLineTime = 0
    /\ klineRecorded = FALSE

NextCadence ==
    \/ Tick
    \/ PhaseChange
    \/ TickerFire("normal")
    \/ pushLoop_Normal
    \/ runParallel_Timeout

SpecCadence == InitCadence /\ [][NextCadence]_vars

\* The number of normal ticks between two dispatches, by phase.
C33_Every(phase) ==
    CASE phase = "pre_market" -> 3
      [] phase = "lunch_break" -> 5
      [] OTHER -> 10

\* The tasks of a dispatch outside trading, by phase.
C33_TaskSet(phase) ==
    CASE phase = "pre_market" -> {"pushStockData", "pushOrderBookData", "pushMarketIndices"}
      [] phase = "lunch_break" -> {"pushStockData", "pushMarketIndices", "pushMarketStatus"}
      [] OTHER -> {"pushStockData", "pushMarketIndices", "pushOrderBookData",
                   "pushKLineData", "pushMarketStatus"}

\* The tasks of the workers spawned in this step.
C33_Dispatched == {workers'[k].task : k \in (Len(workers) + 1)..Len(workers')}

\* C33: outside trading the normal tier dispatches only on every Nth tick
\* of one tick counter, which advances by one on every normal tick in every
\* phase: on multiples of 3 in pre_market, of 5 in lunch_break and of 10 in
\* closed or any other phase.  Nothing is dispatched on the other ticks, and
\* the task set of a dispatch is fixed per phase, one worker per task.
C33_NormalTierOutsideTrading ==
    [][/\ (tickers["normal"].pending /\ ~tickers'["normal"].pending) =>
             normalCount' = normalCount + 1
       /\ normalCount' \in {normalCount, normalCount + 1}
       /\ (normalCount' = normalCount + 1 /\ lastMarketStatus' # "trading") =>
             IF normalCount' % C33_Every(lastMarketStatus') = 0
               THEN /\ C33_Dispatched = C33_TaskSet(lastMarketStatus')
                    /\ Len(workers') - Len(workers) = Cardinality(C33_TaskSet(lastMarketStatus'))
               ELSE /\ workers' = workers
                    /\ loopPc' = "select"
      ]_vars

\* The tenth normal tick in phase closed has dispatched the five tasks of
\* the full push, the first dispatch of the session.
C33_Witness ==
    /\ normalCount = 10
    /\ lastMarketStatus = "closed"
    /\ Len(workers) = 5
    /\ workers[4].task = "pushKLineData"

\* The counter runs across a phase change: the third tick dispatched in
\* pre_market, the fifth is the first to dispatch in lunch_break.
C33_WitnessAcrossPhases ==
    /\ normalCount = 5
    /\ lastMarketStatus = "lunch_break"
    /\ Len(workers) = 6
    /\ workers[2].task = "pushOrderBookData"
    /\ workers[6].task = "pushMarketStatus"

-----------------------------------------------------------------------------
(* The phase cache and its two writers: getMarketPhase in the control loop *)
(* and pushMarketStatus in a worker.  The focus symbol is unset, so the    *)
(* order-book worker of a fast tick returns at its first read.             *)

InitPhaseCache ==
    /\ InService(MaxSpawn + 6, MaxTicks, phaseCacheTTL)
    /\ marketPhase = "trading"
    /\ lastMarketStatus = "trading"
    /\ subscribedCodes = <<"sh600000">>
    /\ currentOrderBook = ""
    /\ lastOrderBookHash = NoHash
    /\ klineSub = NoSubscription
    /\ lastKLineTime = 0
    /\ klineRecorded = FALSE

NextPhaseCache ==
    \/ Tick
    \/ PhaseChange
    \/ FastTickerFire
    \/ TickerFire("normal")
    \/ pushLoop_Fast
    \/ pushLoop_Normal
    \/ runParallel_Done
    \/ runParallel_Timeout
    \/ \E i \in WorkerIds : pushOrderBookData_Read(i)
    \/ \E i \in WorkerIds : pushMarketStatus_Get(i)
    \/ \E i \in WorkerIds : pushMarketStatus_Check(i)
    \/ \E i \in WorkerIds : pushMarketStatus_Emit(i)

SpecPhaseCache == InitPhaseCache /\ [][NextPhaseCache]_vars

\* The control loop looks the phase up in this step: it receives a fast tick.
C34_Lookup == tickers["fast"].pending /\ ~tickers'["fast"].pending

\* The phase the lookup of this step returns, read off the dispatch.
C34_SeesTrading == Len(workers') = Len(workers) + 1

\* The phase cache is written in this step.
C34_Stored == <<lastMarketStatus, lastMarketStatusTime>>' # <<lastMarketStatus, lastMarketStatusTime>>

\* Worker i, a status task, writes the phase cache in this step.
C34_StatusTaskStores(i) ==
    /\ workers[i].task = "pushMarketStatus"
    /\ workers[i].pc = "check" /\ workers'[i].pc = "emit"

\* C34: the phase lookup returns the cached phase, without asking the
\* calendar, whenever a non-empty phase was stored less than 10 seconds ago;
\* otherwise it computes the phase and stores it with the current time.
\* Every phase in the cache carries the time it was computed at, whichever
\* of the two writers stored it, so the phase used to select the tasks of a
\* tick was computed at most 10 seconds before that tick.
C34_PhaseAtMostTenSecondsOld ==
    [][/\ C34_Lookup =>
            IF Since(lastMarketStatusTime) < 10 /\ lastMarketStatus # ""
              THEN /\ ~C34_Stored
                   /\ C34_SeesTrading <=> lastMarketStatus = "trading"
              ELSE /\ lastMarketStatus' = marketPhase
                   /\ lastMarketStatusTime' = now
                   /\ C34_SeesTrading <=> marketPhase = "trading"
       /\ \A i \in WorkerIds :
            C34_StatusTaskStores(i) => lastMarketStatusTime' = workers[i].data[2]
      ]_vars

\* The lookup half of C34 alone
C34_LookupUsesCache ==
    [][C34_Lookup =>
            IF Since(lastMarketStatusTime) < 10 /\ lastMarketStatus # ""
              THEN /\ ~C34_Stored
                   /\ C34_SeesTrading <=> lastMarketStatus = "trading"
              ELSE /\ lastMarketStatus' = marketPhase
                   /\ lastMarketStatusTime' = now
                   /\ C34_SeesTrading <=> marketPhase = "trading"
      ]_vars

-----------------------------------------------------------------------------
(* cleanCacheLoop: the background sweep of the two caches, beside readers  *)
(* of both.  A fast tick reads the order book through the stock cache, a   *)
(* daily tick reads the weekly candles through the candle cache.           *)

\* The entries of cache c the sweep keeps: those not older than the threshold.
Swept(c, age) == [k \in {key \in DOMAIN c : ~(Since(c[key].timestamp) > age)} |-> c[k]]

\* A sweep that removes every entry older than a second.
cleanExpiredCacheEarly ==
    /\ ~crashed
    /\ cache' = Swept(cache, 1)
    /\ klineCache' = Swept(klineCache, 1)
    /\ UNCHANGED <<now, pusherVars, ctrlVars, workers, crashed, listeners, inbox, sink,
                   marketPhase, upstream, klineRecorded, limit, extVars>>

\* cleanExpiredCache, called by cleanCacheLoop on every tick of its ticker.
cleanExpiredCache ==
    /\ ~crashed
    /\ cache' = Swept(cache, sweepAge)
    /\ klineCache' = Swept(klineCache, sweepAge)
    /\ UNCHANGED <<now, pusherVars, ctrlVars, workers, crashed, listeners, inbox, sink,
                   marketPhase, upstream, klineRecorded, limit, extVars>>

\* The service has been running for eleven seconds and each cache holds
\* one entry: the order book stored eleven, ten or one second ago, the
\* weekly candles eleven seconds or one second ago.
InitSweep ==
    /\ now = sweepAge + 1
    /\ lastMarketStatusTime = now
    /\ LoopInSelect(Limit(MaxSpawn, 0, sweepAge + 2))
    /\ \E t \in {0, 1, sweepAge} :
         cache = MapPut(EmptyMap, StockCacheKey("sh600000"),
                        CacheEntry(<<StockRecord("sh600000", BookA)>>, t))
    /\ \E s \in DaySeries, t \in {0, sweepAge} :
         klineCache = MapPut(EmptyMap, KLineCacheKey("sh600000", "1w", klineDayCount),
                             CacheEntry(s, t))
    /\ marketPhase = "trading"
    /\ lastMarketStatus = "trading"
    /\ subscribedCodes = <<"sh600000">>
    /\ currentOrderBook = "sh600000"
    /\ lastOrderBookHash = NoHash
    /\ klineSub = [Code |-> "sh600000", Period |-> "1w"]
    /\ lastKLineTime = 0
    /\ klineRecorded = FALSE

NextSweep ==
    \/ Tick
    \/ cleanExpiredCache
    \/ TickerFire("fast")
    \/ DailyTickerFire
    \/ pushLoop_Fast
    \/ pushLoop_KLineDay
    \/ runParallel_Done
    \/ runParallel_Timeout
    \/ \E i \in WorkerIds : pushOrderBookData_Read(i)
    \/ \E i \in WorkerIds : GetStockDataWithOrderBook_Lookup(i)
    \/ \E i \in WorkerIds : GetStockDataWithOrderBook_Fetch(i)
    \/ \E i \in WorkerIds : GetStockDataWithOrderBook_Store(i)
    \/ \E i \in WorkerIds : pushOrderBookData_SetHash(i)
    \/ \E i \in WorkerIds : pushOrderBookData_Emit(i)
    \/ \E i \in WorkerIds : pushKLineDay_Read(i)
    \/ \E i \in WorkerIds : GetKLineData_Lookup(i)
    \/ \E i \in WorkerIds : GetKLineData_Fetch(i)
    \/ \E i \in WorkerIds : GetKLineData_Store(i)
    \/ \E i \in WorkerIds : pushKLineData_Emit(i)

SpecSweep == InitSweep /\ [][NextSweep]_vars

\* What a reader can get from cache c: the payloads of the entries within the TTL.
C35_View(c, ttl) == [k \in {key \in DOMAIN c : CacheValid(c, key, ttl)} |-> c[k].data]

\* Entries leave a cache in this step: the step is a sweep.
C35_Sweeps == DOMAIN cache' # DOMAIN cache \cup DOMAIN cache'
              \/ DOMAIN klineCache' # DOMAIN klineCache \cup DOMAIN klineCache'

\* The sweep of this step on cache c, with c2 the cache after it: only
\* entries older than the threshold go, none of them within its TTL; the
\* others stay as they are and none older than the threshold is left; what
\* a reader can get is the same before and after.
C35_SweepOf(c, c2, ttl) ==
    /\ DOMAIN c2 \subseteq DOMAIN c
    /\ \A k \in DOMAIN c \ DOMAIN c2 :
         Since(c[k].timestamp) > 10 /\ ~(Since(c[k].timestamp) < ttl)
    /\ \A k \in DOMAIN c2 : c2[k] = c[k] /\ Since(c2[k].timestamp) <= 10
    /\ C35_View(c2, ttl) = C35_View(c, ttl)

\* C35: the background sweep is invisible to readers.  It removes only
\* entries older than a fixed multiple of the TTL, never one within its TTL;
\* after a sweep no entry older than that threshold remains in either
\* cache; and a sweep changes nothing a read depends on or produces (the
\* payload a read can get from either cache, the workers, the events and
\* the upstream fetches), so the payloads returned and the fetches made by
\* any sequence of reads are the same with and without sweeps interleaved.
C35_SweepInvisible ==
    [][C35_Sweeps =>
         /\ C35_SweepOf(cache, cache', cacheTTL)
         /\ C35_SweepOf(klineCache, klineCache', klineCacheTTL)
         /\ sweepAge >= cacheTTL /\ sweepAge >= klineCacheTTL
         /\ UNCHANGED <<now, workers, sink, upstream, pusherVars>>
      ]_vars

\* The stock cache has been swept empty, and a reader that came after the
\* sweep has missed and is fetching, as it would have with the old entry
\* still there.
C35_Witness ==
    /\ cache = EmptyMap
    /\ \E i \in WorkerIds : workers[i].task = "pushOrderBookData" /\ workers[i].pc = "fetch"
    /\ upstream = EmptyMap

-----------------------------------------------------------------------------
(* Resolution of a year's holiday table: loadHolidayData with the table in *)
(* memory or not, the year's cache file missing, unparsable or good, the   *)
(* remote dataset reachable or not, the cache directory writable or not.   *)

\* A caller asks loadHolidayData for the table of a year.
loadHolidayData_Call(year) ==
    \E cdn, write \in BOOLEAN :
       LET l == loadHolidayData(holidayCacheData, holidayFiles, year, cdn, write)
       IN  /\ answer' = [call |-> "loadHolidayData", year |-> year, data |-> l.data,
                         err |-> l.err, read |-> l.read, fetched |-> l.fetched]
           /\ holidayCacheData' = l.mem
           /\ holidayFiles' = l.files
           /\ UNCHANGED <<PusherAtRest, clock, tradeDatesFile>>

\* The cache directory an earlier run left: per year no file, a file that
\* does not decode, or the dataset.
InitLoad ==
    /\ PusherConstructed(Limit(0, 0, 0))
    /\ marketPhase = "closed"
    /\ clock = [day |-> 0, minute |-> 0]
    /\ holidayCacheData = EmptyMap
    /\ \E present \in SUBSET Years :
         holidayFiles \in [present -> {UnparsableFile} \cup {HolidayCN(y) : y \in Years}]
    /\ \A y \in DOMAIN holidayFiles : holidayFiles[y] \in {UnparsableFile, HolidayCN(y)}
    /\ tradeDatesFile = [exists |-> FALSE, TradeDates |-> <<>>, UpdatedAt |-> 0]
    /\ answer = [call |-> "none"]
    /\ args = NoArgs

NextLoad ==
    \/ \E year \in Years : loadHolidayData_Call(year)
    \/ ProcessRestart

SpecLoad == InitLoad /\ [][NextLoad]_vars

\* This step is a resolution of year y (a restart empties the memory and
\* leaves the last answer standing; a resolution never empties it).
C36_Resolves(y) ==
    /\ answer'.call = "loadHolidayData" /\ answer'.year = y
    /\ ~(holidayCacheData # EmptyMap /\ holidayCacheData' = EmptyMap)

\* Where the table of year y is when the resolution begins.
C36_InMemory(y) == y \in DOMAIN holidayCacheData
C36_OnDisk(y) == y \in DOMAIN holidayFiles /\ holidayFiles[y] # UnparsableFile

\* The order of a resolution and what it answers: memory, then disk, then
\* the remote dataset.
C36_Order(y) ==
    /\ answer'.read <=> ~C36_InMemory(y)
    /\ answer'.fetched <=> ~C36_InMemory(y) /\ ~C36_OnDisk(y)
    /\ C36_InMemory(y) => ~answer'.err /\ answer'.data = holidayCacheData[y]
                          /\ UNCHANGED <<holidayCacheData, holidayFiles>>
    /\ (~C36_InMemory(y) /\ C36_OnDisk(y)) =>
          /\ ~answer'.err
          /\ answer'.data = parseHolidayData(holidayFiles[y])
          /\ holidayCacheData' = MapPut(holidayCacheData, y, answer'.data)
          /\ UNCHANGED holidayFiles
    /\ ~answer'.err => y \in DOMAIN holidayCacheData' /\ holidayCacheData'[y] = answer'.data
    /\ answer'.err => UNCHANGED <<holidayCacheData, holidayFiles>>

-----------------------------------------------------------------------------
(* C37: Stop against a Start under way *)

\* C37: once Stop has returned the scheduler stays shut down, however Stop
\* interleaves with Start: after both calls have returned no subscription
\* listener is registered; no control loop is started and no dispatch is
\* started after Stop, so no event is published by such a dispatch.
C37_StopIsFinal ==
    /\ []((stopped /\ startPc = "returned") => listeners \cap SubscribeEvents = {})
    /\ [][stopped => /\ ~(loopPc # "start" /\ loopPc' = "start")
                     /\ Len(workers') = Len(workers)]_vars

\* Stop ran between the check of Start and its setupEventListeners: both
\* calls have returned, the three listeners are registered, and the loop
\* started after Stop has made its immediate dispatch before it exited.
C37_ListenersAfterStop ==
    /\ stopped /\ stopCalls = 1 /\ startPc = "returned"
    /\ listeners = SubscribeEvents
    /\ loopPc = "exited"
    /\ Len(workers) = 6

-----------------------------------------------------------------------------
(* C38: removal from the watchlist *)

\* The watchlist without symbol c, the others in their order.
C38_Without(codes, c) == SelectSeq(codes, LAMBDA x : x # c)

\* C38: after RemoveSubscription(s) has returned, s is not in the watchlist
\* and every other symbol keeps its presence and its place relative to the
\* others, whatever sequence of watchlist requests, AddSubscription and
\* RemoveSubscription came before.
C38_RemovedSymbolIsGone ==
    [][\A c \in Codes :
         C13_Call("RemoveSubscription", c) =>
            /\ ~Contains(subscribedCodes', c)
            /\ subscribedCodes' = C38_Without(subscribedCodes, c)]_vars

-----------------------------------------------------------------------------
(* A change of the focus symbol during trading.  A snapshot of sh600000    *)
(* has been published and its fingerprint recorded; the front end then     *)
(* asks for the order book of sz000001.                                    *)

InitFocus ==
    /\ InService(MaxSpawn, 0, 0)
    /\ marketPhase = "trading"
    /\ lastMarketStatus = "trading"
    /\ subscribedCodes = <<"sh600000", "sz000001">>
    /\ currentOrderBook = "sh600000"
    /\ lastOrderBookHash = orderBookHash(BookA)
    /\ klineSub = NoSubscription
    /\ lastKLineTime = 0
    /\ klineRecorded = FALSE

NextFocus ==
    \/ EmitRequest(EventOrderBookSubscribe, <<"sz000001">>)
    \/ OnOrderBookSubscribe
    \/ TickerFire("fast")
    \/ pushLoop_Fast
    \/ runParallel_Done
    \/ runParallel_Timeout
    \/ \E i \in WorkerIds : pushOrderBookData_Read(i)
    \/ \E i \in WorkerIds : GetStockDataWithOrderBook_Lookup(i)
    \/ \E i \in WorkerIds : GetStockDataWithOrderBook_Fetch(i)
    \/ \E i \in WorkerIds : GetStockDataWithOrderBook_Store(i)
    \/ \E i \in WorkerIds : pushOrderBookData_SetHash(i)
    \/ \E i \in WorkerIds : pushOrderBookData_Emit(i)

SpecFocus == InitFocus /\ [][NextFocus]_vars

\* Worker i has made the first fetch of the order book of symbol c, the
\* fetch succeeded, and the worker compares fingerprints in this step.
C39_FirstSnapshotCompared(i, c) ==
    /\ workers[i].task = "pushOrderBookData"
    /\ workers[i].code = c
    /\ workers[i].pc = "store" /\ workers'[i].pc # "store"
    /\ UpstreamCount(upstream, <<"book", c>>) = 1

\* C39: after the focus symbol has been changed to another symbol, the
\* first successful order-book fetch for the new symbol is published: the
\* fingerprint recorded for the symbol focused before never suppresses the
\* first snapshot of the new one, also when both have the same top of book.
C39_FirstSnapshotOfNewFocus ==
    [][\A i \in WorkerIds :
         C39_FirstSnapshotCompared(i, "sz000001") => workers'[i].pc = "setHash"]_vars

-----------------------------------------------------------------------------
(* The think-tag stream parser (package openai).  A Go string is a sequence
   of bytes; a byte is written as a one-character string, or as its two hex
   digits when it is not ASCII. *)

MaxTokens == 3
MaxCuts == 1

thinkOpenTag == <<"<", "t", "h", "i", "n", "k", ">">>
thinkCloseTag == <<"<", "/", "t", "h", "i", "n", "k", ">">>

\* thinkSegment
thinkSegment(text, thought) == [Text |-> text, Thought |-> thought]

\* U+212A KELVIN SIGN: three bytes in UTF-8, and unicode.ToLower maps it to
\* the one byte "k".
KelvinSign == <<"e2", "84", "aa">>

\* The lower case of one ASCII byte.
LowerByte(b) ==
    CASE b = "T" -> "t"
      [] b = "H" -> "h"
      [] b = "I" -> "i"
      [] b = "N" -> "n"
      [] b = "K" -> "k"
      [] OTHER -> b

\* strings.ToLower: character by character, each re-encoded in UTF-8.
RECURSIVE ToLower(_)
ToLower(s) ==
    IF s = <<>> THEN <<>>
    ELSE IF Len(s) >= 3 /\ SubSeq(s, 1, 3) = KelvinSign
         THEN <<"k">> \o ToLower(SubSeq(s, 4, Len(s)))
         ELSE <<LowerByte(s[1])>> \o ToLower(Tail(s))

\* strings.Index: the byte offset of the first occurrence, -1 if none.
Index(s, sep) ==
    LET found == {i \in 0..(Len(s) - Len(sep)) : SubSeq(s, i + 1, i + Len(sep)) = sep}
    IN  IF found = {} THEN -1 ELSE CHOOSE i \in found : \A j \in found : i <= j

indexFold(s, sep) ==
    IF sep = <<>> THEN 0 ELSE Index(ToLower(s), ToLower(sep))

\* strings.EqualFold of a string with an ASCII string of the same length in
\* bytes: a byte that is not ASCII equals no byte of the tag.
EqualFold(s, t) ==
    /\ Len(s) = Len(t)
    /\ \A i \in 1..Len(s) : LowerByte(s[i]) = LowerByte(t[i])

\* s[from:to] of Go.
Slice(s, from, to) == SubSeq(s, from + 1, to)

splitKeepPossibleTagPrefix(text, tag) ==
    IF text = <<>> \/ Len(tag) <= 1 THEN [emit |-> text, keep |-> <<>>]
    ELSE LET maxSuffix == IF Len(tag) - 1 > Len(text) THEN Len(text) ELSE Len(tag) - 1
             ks == {k \in 1..maxSuffix :
                      EqualFold(Slice(text, Len(text) - k, Len(text)), Slice(tag, 0, k))}
         IN  IF ks = {} THEN [emit |-> text, keep |-> <<>>]
             ELSE LET k == CHOOSE x \in ks : \A y \in ks : y <= x
                  IN  [emit |-> Slice(text, 0, Len(text) - k),
                       keep |-> Slice(text, Len(text) - k, Len(text))]

RECURSIVE mergeThinkSegments(_)
mergeThinkSegments(segments) ==
    IF segments = <<>> THEN <<>>
    ELSE LET n == Len(segments)
             merged == mergeThinkSegments(SubSeq(segments, 1, n - 1))
             seg == segments[n]
             m == Len(merged)
         IN  IF seg.Text = <<>> THEN merged
             ELSE IF m > 0 /\ merged[m].Thought = seg.Thought
                  THEN [merged EXCEPT ![m].Text = @ \o seg.Text]
                  ELSE Append(merged, seg)

\* The parser: its two fields, and the segments of the last call.
Parser(buffer, inThink, segments) ==
    [buffer |-> buffer, inThink |-> inThink, segments |-> segments]

newThinkTagStreamParser == Parser(<<>>, FALSE, <<>>)

\* The loop of Feed, from the parser's buffer and flag and the segments of
\* the call so far.
RECURSIVE FeedLoop(_, _, _)
FeedLoop(buffer, inThink, segments) ==
    IF buffer = <<>> THEN Parser(buffer, inThink, segments)
    ELSE LET tag == IF inThink THEN thinkCloseTag ELSE thinkOpenTag
             idx == indexFold(buffer, tag)
             split == splitKeepPossibleTagPrefix(buffer, tag)
         IN  IF idx >= 0
             THEN FeedLoop(Slice(buffer, idx + Len(tag), Len(buffer)), ~inThink,
                           IF idx > 0
                           THEN Append(segments, thinkSegment(Slice(buffer, 0, idx), inThink))
                           ELSE segments)
             ELSE Parser(split.keep, inThink,
                         IF split.emit # <<>>
                         THEN Append(segments, thinkSegment(split.emit, inThink))
                         ELSE segments)

Feed(p, chunk) ==
    IF chunk = <<>> THEN Parser(p.buffer, p.inThink, <<>>)
    ELSE LET r == FeedLoop(p.buffer \o chunk, p.inThink, <<>>)
         IN  Parser(r.buffer, r.inThink, mergeThinkSegments(r.segments))

Flush(p) ==
    IF p.buffer = <<>> THEN Parser(p.buffer, p.inThink, <<>>)
    ELSE Parser(<<>>, FALSE, <<thinkSegment(p.buffer, p.inThink)>>)

splitThinkTaggedText(text) ==
    IF text = <<>> THEN <<>>
    ELSE LET fed == Feed(newThinkTagStreamParser, text)
             flushed == Flush(fed)
         IN  mergeThinkSegments(fed.segments \o flushed.segments)

\* The pieces a text is made of: the two tags, the opening tag in upper case,
\* a letter, a Kelvin sign, and two beginnings of a tag.
ThinkTokens ==
    {thinkOpenTag, thinkCloseTag, <<"<", "T", "H", "I", "N", "K", ">">>,
     <<"a">>, KelvinSign, <<"<">>, <<"<", "t", "h">>}

TokenLists == UNION {[1..n -> ThinkTokens] : n \in 0..MaxTokens}

RECURSIVE Flatten(_)
Flatten(seqs) == IF seqs = <<>> THEN <<>> ELSE Head(seqs) \o Flatten(Tail(seqs))

\* The offsets of a text at which a chunk may end: a chunk is a string decoded
\* from a JSON message, so no chunk ends inside a character.
Boundaries(text) ==
    {i \in 0..Len(text) : i = Len(text) \/ text[i + 1] \notin {"84", "aa"}}

\* The sets of at most n of the offsets.
RECURSIVE CutSets(_, _)
CutSets(offsets, n) ==
    IF n = 0 THEN {{}}
    ELSE CutSets(offsets, n - 1) \cup
         {s \cup {c} : s \in CutSets(offsets, n - 1), c \in offsets}

\* The chunks of text cut at the offsets of cuts.
RECURSIVE ChunksFrom(_, _, _)
ChunksFrom(text, cuts, from) ==
    LET later == {c \in cuts : c >= from}
        c == CHOOSE x \in later : \A y \in later : x <= y
    IN  IF later = {} THEN <<Slice(text, from, Len(text))>>
        ELSE <<Slice(text, from, c)>> \o ChunksFrom(text, cuts \ {c}, c)

\* One call of Feed with the next chunk of the stream.
Feed_Call ==
    /\ args.call = "thinkTagStreamParser"
    /\ answer.call \in {"newThinkTagStreamParser", "Feed"}
    /\ answer.fed < Len(args.chunks)
    /\ LET p == Feed(Parser(answer.buffer, answer.inThink, <<>>), args.chunks[answer.fed + 1])
       IN  answer' = [call |-> "Feed", buffer |-> p.buffer, inThink |-> p.inThink,
                      out |-> answer.out \o p.segments, fed |-> answer.fed + 1]
    /\ UNCHANGED <<PusherAtRest, clock, holidayCacheData, holidayFiles, tradeDatesFile>>

\* Flush at the end of the stream.
Flush_Call ==
    /\ args.call = "thinkTagStreamParser"
    /\ answer.call \in {"newThinkTagStreamParser", "Feed"}
    /\ answer.fed = Len(args.chunks)
    /\ LET p == Flush(Parser(answer.buffer, answer.inThink, <<>>))
       IN  answer' = [call |-> "Flush", buffer |-> p.buffer, inThink |-> p.inThink,
                      out |-> answer.out \o p.segments, fed |-> answer.fed]
    /\ UNCHANGED <<PusherAtRest, clock, holidayCacheData, holidayFiles, tradeDatesFile>>

InitThink ==
    /\ PusherConstructed(Limit(0, 0, 0))
    /\ marketPhase = "trading"
    /\ clock = [day |-> 0, minute |-> 15 * 60]
    /\ holidayCacheData = EmptyMap
    /\ holidayFiles = EmptyMap
    /\ tradeDatesFile = [exists |-> FALSE, TradeDates |-> <<>>, UpdatedAt |-> 0]
    /\ answer = [call |-> "newThinkTagStreamParser",
                 buffer |-> newThinkTagStreamParser.buffer,
                 inThink |-> newThinkTagStreamParser.inThink, out |-> <<>>, fed |-> 0]
    /\ \E tokens \in TokenLists :
          \E cuts \in CutSets(Boundaries(Flatten(tokens)), MaxCuts) :
             args = [call |-> "thinkTagStreamParser", tokens |-> tokens,
                     chunks |-> ChunksFrom(Flatten(tokens), cuts, 0)]

NextThink == Feed_Call \/ Flush_Call

SpecThink == InitThink /\ [][NextThink]_vars

\* What the text says, piece by piece: an opening tag outside a think block
\* opens one, a closing tag inside one closes it, and every other piece is
\* text of the kind of the place it stands in.
RECURSIVE C40_Reading(_, _)
C40_Reading(tokens, inThink) ==
    IF tokens = <<>> THEN <<>>
    ELSE LET t == Head(tokens)
             isTag == IF inThink THEN t = thinkCloseTag ELSE ToLower(t) = thinkOpenTag /\ Len(t) = Len(thinkOpenTag)
         IN  IF isTag THEN C40_Reading(Tail(tokens), ~inThink)
             ELSE <<thinkSegment(t, inThink)>> \o C40_Reading(Tail(tokens), inThink)

C40_Flushed == answer.call = "Flush"

\* The segments of the stream equal those of the whole text.
C40_SameAsWhole ==
    C40_Flushed =>
       mergeThinkSegments(answer.out) = splitThinkTaggedText(Flatten(args.tokens))

\* The segments of the stream hold every character outside the tags once.
C40_NothingLost ==
    C40_Flushed =>
       mergeThinkSegments(answer.out) = mergeThinkSegments(C40_Reading(args.tokens, FALSE))

\* After Flush the parser is empty and outside a think block.
C40_AtRest ==
    C40_Flushed => answer.buffer = <<>> /\ ~answer.inThink

\* The same three for texts of ASCII characters only.
C40_Ascii == \A i \in 1..Len(args.tokens) : args.tokens[i] # KelvinSign

C40_AsciiSameAsWhole == C40_Ascii => C40_SameAsWhole

C40_AsciiNothingLost == C40_Ascii => C40_NothingLost

\* C40: for any text and any way of splitting it into chunks, feeding the
\* chunks to Feed and then calling Flush yields, after merging adjacent
\* segments of the same kind, the segments of parsing the whole text at once;
\* no character other than those of the recognised tags is dropped or
\* duplicated; and after Flush the buffer is empty and the parser is outside
\* a think block.
C40_ChunkingIndependent ==
    C40_SameAsWhole /\ C40_NothingLost /\ C40_AtRest

=============================================================================
